---- MODULE Spec2Model ----
(***************************************************************************)
(* The request gatekeeping pipeline (authenticate, checkRole, validate,    *)
(* the four rate limiters), the route tables that compose it, and the      *)
(* retrying HTTP client of api-boilerplate-auth-supabase.                  *)
(***************************************************************************)
EXTENDS Integers, Sequences, FiniteSets, TLC

VARIABLES
    config,     \* config.nodeEnv, config.jwt.algorithm (fixed after start-up)
    now,        \* the clock, in milliseconds
    buckets,    \* the rate-limit store of each tier: key -> hits, resetTime
    reqs,       \* the requests in flight, one per slot
    arrived,    \* number of requests received so far
    log,        \* history: the requests each limiter received, per key
    probe,      \* one call of checkRole(allowedRoles) on a request
    retry,      \* one call of retryRequest
    projects,   \* the projects table of the store: id -> row
    svc,        \* the calls of ProjectService in progress, one per caller
    val,        \* one call of validate(schemas) on a request
    signup      \* one call of AuthService.createUser and the two stores it writes

vars == <<config, now, buckets, reqs, arrived, log, probe, retry, projects, svc, val,
          signup>>

-----------------------------------------------------------------------------
(* Bounds of the model *)

\* requests the environment sends in one behaviour, when they are served one
\* at a time and when they are served concurrently
MaxAlone == 2
MaxArrivals == 3
\* times the clock may advance (by half a minute)
MaxTicks == 2
\* requests handled concurrently
MaxInFlight == 2
\* largest maxRetries a call of retryRequest is given
MaxRetriesBound == 3
\* callers of ProjectService at a time, and calls made in one behaviour
MaxCallers == 2
MaxCalls == 1

(* Configuration (environment settings, scaled down from the defaults 5,   *)
(* 100 and 1000 of the environment schema so that a tier can be exhausted  *)
(* within MaxArrivals requests)                                            *)
RateLimitAuth == 1
RateLimitGeneral == 2
RateLimitHealth == 1
\* RATE_LIMIT_WINDOW, minutes
RateLimitWindow == 1

-----------------------------------------------------------------------------
(* Values *)

\* JavaScript undefined
Absent == "<undefined>"

Truthy(v) == v # Absent /\ v # ""

NodeEnvs == {"development", "production", "test"}
Algorithms == {"HS256", "HS384", "HS512"}

Ips == {"ip1", "ip2"}
UserIds == {"u1", "u2"}
Roles == {"admin", "user", "Admin"}

Payloads ==
    [id : UserIds \cup {Absent, ""},
     email : {"e@x", Absent, ""},
     profile_id : {"p1", Absent, ""},
     profile_name : Roles \cup {Absent, ""}]

NoPayload == [id |-> Absent, email |-> Absent, profile_id |-> Absent, profile_name |-> Absent]

\* a compact JWT: the algorithm of its header, whether its signature verifies
\* with config.jwt.secret under that algorithm, whether exp is in the past
Tokens ==
    [form : {"jwt"}, alg : Algorithms, sigOK : BOOLEAN, expired : BOOLEAN, payload : Payloads]

\* a string that is not a JWT at all (also the empty string after 'Bearer ')
GarbageToken ==
    [form |-> "garbage", alg |-> "HS256", sigOK |-> FALSE, expired |-> FALSE, payload |-> NoPayload]

NoHeader == [kind |-> "none", token |-> GarbageToken]
OtherHeader == [kind |-> "other", token |-> GarbageToken]
Bearer(t) == [kind |-> "bearer", token |-> t]

Headers == {NoHeader, OtherHeader} \cup {Bearer(t) : t \in Tokens \cup {GarbageToken}}

Response(status, code) == [status |-> status, code |-> code]

NoUser == NoPayload

-----------------------------------------------------------------------------
(* authenticate *)

\* a verification without the algorithms option: any HMAC algorithm passes
jwtVerify_AnyAlgorithm(token, alg) ==
    IF token.form # "jwt"
    THEN [error |-> "JsonWebTokenError", decoded |-> NoPayload]
    ELSE IF ~token.sigOK
    THEN [error |-> "JsonWebTokenError", decoded |-> NoPayload]
    ELSE IF token.expired
    THEN [error |-> "TokenExpiredError", decoded |-> NoPayload]
    ELSE [error |-> "none", decoded |-> token.payload]

\* jwt.verify(token, secret, {algorithms: [alg]}): the payload, or the error thrown
jwtVerify(token, alg) ==
    IF token.form # "jwt"
    THEN [error |-> "JsonWebTokenError", decoded |-> NoPayload]
    ELSE IF token.alg # alg
    THEN [error |-> "JsonWebTokenError", decoded |-> NoPayload]
    ELSE IF ~token.sigOK
    THEN [error |-> "JsonWebTokenError", decoded |-> NoPayload]
    ELSE IF token.expired
    THEN [error |-> "TokenExpiredError", decoded |-> NoPayload]
    ELSE [error |-> "none", decoded |-> token.payload]

\* the check with profile_id forgotten
HasRequiredFields_NoProfileId(decoded) ==
    /\ Truthy(decoded.id)
    /\ Truthy(decoded.email)
    /\ Truthy(decoded.profile_name)

\* the check of the required fields of the decoded payload
HasRequiredFields(decoded) ==
    /\ Truthy(decoded.id)
    /\ Truthy(decoded.email)
    /\ Truthy(decoded.profile_id)
    /\ Truthy(decoded.profile_name)

\* outcome of a middleware: whether it called next, the response it sent
\* (status 0: none), and req.user after it
Outcome(next, status, code, user) ==
    [next |-> next, status |-> status, code |-> code, user |-> user]

\* the catch block testing JsonWebTokenError first: TokenExpiredError is one
JwtErrorCode_BaseClassFirst(error) ==
    IF error \in {"JsonWebTokenError", "TokenExpiredError"} THEN "MALFORMED_TOKEN"
    ELSE "INVALID_TOKEN"

\* the error code of the catch block around jwt.verify
JwtErrorCode(error) ==
    IF error = "TokenExpiredError" THEN "EXPIRED_TOKEN"
    ELSE IF error = "JsonWebTokenError" THEN "MALFORMED_TOKEN"
    ELSE "INVALID_TOKEN"

\* authenticate without the return after the MISSING_TOKEN response
authenticate_NoReturn(header, user, alg) ==
    IF header.kind # "bearer"
    THEN Outcome(TRUE, 401, "MISSING_TOKEN", user)
    ELSE LET v == jwtVerify(header.token, alg) IN
         IF v.error # "none"
         THEN Outcome(FALSE, 401, JwtErrorCode(v.error), user)
         ELSE IF ~HasRequiredFields(v.decoded)
         THEN Outcome(FALSE, 401, "INVALID_TOKEN", user)
         ELSE Outcome(TRUE, 0, "", v.decoded)

authenticate(header, user, alg) ==
    IF header.kind # "bearer"
    THEN Outcome(FALSE, 401, "MISSING_TOKEN", user)
    ELSE LET v == jwtVerify(header.token, alg) IN
         IF v.error # "none"
         THEN Outcome(FALSE, 401, JwtErrorCode(v.error), user)
         ELSE IF ~HasRequiredFields(v.decoded)
         THEN Outcome(FALSE, 401, "INVALID_TOKEN", user)
         ELSE Outcome(TRUE, 0, "", v.decoded)

-----------------------------------------------------------------------------
(* checkRole *)

\* a hierarchical test: an admin passes every gate
RoleAllowed_Hierarchical(allowedRoles, userRole) ==
    userRole \in allowedRoles \/ userRole = "admin"

\* allowedRoles.includes(userRole)
RoleAllowed(allowedRoles, userRole) == userRole \in allowedRoles

\* req.user undefined: reading profile_name throws inside the try, the catch
\* block reads req.user!.id and throws again, so the error leaves the
\* middleware and the global error handler of server.ts answers
checkRole(allowedRoles, user) ==
    IF user = NoUser
    THEN [next |-> FALSE, status |-> 500, code |-> "INTERNAL_SERVER_ERROR",
          required |-> {}, current |-> Absent, threw |-> TRUE]
    ELSE IF ~RoleAllowed(allowedRoles, user.profile_name)
    THEN [next |-> FALSE, status |-> 403, code |-> "INSUFFICIENT_PERMISSIONS",
          required |-> allowedRoles, current |-> user.profile_name, threw |-> FALSE]
    ELSE [next |-> TRUE, status |-> 0, code |-> "",
          required |-> {}, current |-> Absent, threw |-> FALSE]

-----------------------------------------------------------------------------
(* validate *)

Facets == <<"body", "params", "query">>

\* what schema.parse does with the raw value of a facet: returns the
\* normalized value ("ok"), throws a ZodError with one or two issues
\* ("bad1", "bad2"), or throws something that is not a ZodError ("throw")
FacetInputs == {"ok", "bad1", "bad2", "throw"}

\* error.errors.map(err => `${facet}.${path}: ${message}`)
FacetErrors(facet, input) ==
    IF input = "bad1" THEN << <<facet, 1>> >>
    ELSE IF input = "bad2" THEN << <<facet, 1>>, <<facet, 2>> >>
    ELSE << >>

\* the errors pushed for the i-th facet, if the route has a schema for it
PushedErrors(schemas, raw, i) ==
    IF Facets[i] \in schemas THEN FacetErrors(Facets[i], raw[Facets[i]]) ELSE << >>

\* a validation that stops at the first facet that fails
ValidationErrors_FirstFailure(schemas, raw) ==
    IF Len(PushedErrors(schemas, raw, 1)) > 0 THEN PushedErrors(schemas, raw, 1)
    ELSE IF Len(PushedErrors(schemas, raw, 2)) > 0 THEN PushedErrors(schemas, raw, 2)
    ELSE PushedErrors(schemas, raw, 3)

\* errors, after the three facets were parsed
ValidationErrors(schemas, raw) ==
    PushedErrors(schemas, raw, 1) \o PushedErrors(schemas, raw, 2) \o PushedErrors(schemas, raw, 3)

\* req.body, req.params and req.query after the three assignments
\* req[facet] = schemas[facet].parse(req[facet]): a facet is replaced by the
\* value its schema returns; it stays as received when there is no schema
\* for it or when parse throws
FacetsAfter(schemas, raw) ==
    [f \in {"body", "params", "query"} |->
        IF f \in schemas /\ raw[f] = "ok" THEN "normalized" ELSE "received"]

validate(schemas, raw) ==
    LET errors == ValidationErrors(schemas, raw) IN
    IF Len(errors) > 0
    THEN [next |-> FALSE, status |-> 400, code |-> "VALIDATION_ERROR", errors |-> errors]
    ELSE [next |-> TRUE, status |-> 0, code |-> "", errors |-> errors]

-----------------------------------------------------------------------------
(* The rate limiters *)

Tiers == {"auth", "general", "health", "admin"}

\* the max of each limiter
TierMax(tier) ==
    CASE tier = "auth" -> RateLimitAuth
      [] tier = "general" -> RateLimitGeneral
      [] tier = "health" -> RateLimitHealth
      [] tier = "admin" -> RateLimitGeneral \div 2

\* the window converted to seconds only
WindowMs_Seconds == RateLimitWindow * 60

\* windowMs: minutes converted to milliseconds
WindowMs == RateLimitWindow * 60 * 1000

\* every limiter keyed by address only
KeyGenerator_AddressOnly(tier, user, ip) ==
    IF Truthy(ip) THEN ip ELSE "unknown"

\* the keyGenerator of each limiter
KeyGenerator(tier, user, ip) ==
    IF tier \in {"general", "admin"} /\ user # NoUser /\ Truthy(user.id)
    THEN user.id
    ELSE IF Truthy(ip) THEN ip ELSE "unknown"

Keys == Ips \cup UserIds \cup {"unknown"}

\* limiting in production only
\* no environment is exempt
Skip_Never(cfg) == FALSE

Skip_UnlessProduction(cfg) == cfg.nodeEnv # "production"

\* skip: no limiting in the test environment
Skip(cfg) == cfg.nodeEnv = "test"

NewBucket == [hits |-> 0, resetTime |-> 0]

\* an increment that loses the update of a window already open
StoreIncrement_LostUpdate(bucket, t) ==
    IF bucket.resetTime <= t
    THEN [hits |-> 1, resetTime |-> t + WindowMs]
    ELSE [hits |-> bucket.hits, resetTime |-> bucket.resetTime]

\* the store's increment of one key at time t: a bucket whose window is over
\* starts again, then the hit is counted
StoreIncrement(bucket, t) ==
    IF bucket.resetTime <= t
    THEN [hits |-> 1, resetTime |-> t + WindowMs]
    ELSE [hits |-> bucket.hits + 1, resetTime |-> bucket.resetTime]

\* the limiter answers 429 when the hits counted for the request exceed max
LimitExceeded(totalHits, max) == totalHits > max

-----------------------------------------------------------------------------
(* The route tables *)

Stage(kind, allowedRoles, schemas) ==
    [kind |-> kind, allowedRoles |-> allowedRoles, schemas |-> schemas]

Limiter(tier) == Stage(tier \o "RateLimit", {}, {})
Authenticate == Stage("authenticate", {}, {})
CheckRole(allowedRoles) == Stage("checkRole", allowedRoles, {})
Validate(schemas) == Stage("validate", {}, schemas)
Controller == Stage("controller", {}, {})

LimiterKinds == {t \o "RateLimit" : t \in Tiers}

TierOf(kind) == CHOOSE t \in Tiers : t \o "RateLimit" = kind

AdminRoutes ==
    {"POST /api/auth/users", "PATCH /api/auth/users/:id/status",
     "POST /api/auth/change-password", "POST /api/auth/check-sync"}

AuthRoutes ==
    {"POST /api/auth/login", "POST /api/auth/reset-password",
     "GET /api/auth/me", "GET /api/auth/validate"} \cup AdminRoutes

ProjectRoutes ==
    {"POST /api/projects", "GET /api/projects", "GET /api/projects/:id",
     "PATCH /api/projects/:id", "DELETE /api/projects/:id"}

Routes == AuthRoutes \cup ProjectRoutes \cup {"GET /health"}

\* the schema of the route's validate, by facet
SchemasOf(route) ==
    CASE route = "PATCH /api/auth/users/:id/status" -> {"params", "body"}
      [] route = "PATCH /api/projects/:id" -> {"params", "body"}
      [] route = "GET /api/projects" -> {"query"}
      [] route \in {"GET /api/projects/:id", "DELETE /api/projects/:id"} -> {"params"}
      [] OTHER -> {"body"}

\* authRoutes with checkRole registered before authenticate on the admin routes
authRoutes_RoleFirst(route) ==
    IF route \in {"POST /api/auth/login", "POST /api/auth/reset-password"}
    THEN <<Limiter("auth"), Validate(SchemasOf(route)), Controller>>
    ELSE IF route \in {"GET /api/auth/me", "GET /api/auth/validate"}
    THEN <<Authenticate, Controller>>
    ELSE <<CheckRole({"admin"}), Authenticate, Limiter("admin"),
           Validate(SchemasOf(route)), Controller>>

\* authRoutes
authRoutes(route) ==
    IF route \in {"POST /api/auth/login", "POST /api/auth/reset-password"}
    THEN <<Limiter("auth"), Validate(SchemasOf(route)), Controller>>
    ELSE IF route \in {"GET /api/auth/me", "GET /api/auth/validate"}
    THEN <<Authenticate, Controller>>
    ELSE <<Authenticate, CheckRole({"admin"}), Limiter("admin"),
           Validate(SchemasOf(route)), Controller>>

\* projectRoutes: router.use(authenticate), router.use(generalRateLimit), the route
projectRoutes(route) ==
    <<Authenticate, Limiter("general"), Validate(SchemasOf(route)), Controller>>

\* the handlers a request of the route goes through, in order
Chain(route) ==
    IF route \in AuthRoutes THEN authRoutes(route)
    ELSE IF route \in ProjectRoutes THEN projectRoutes(route)
    ELSE <<Limiter("health"), Controller>>

-----------------------------------------------------------------------------
(* Requests *)

Slots == 1..MaxInFlight

AllOk == [f \in {"body", "params", "query"} |-> "ok"]

IdleReq ==
    [st |-> "idle", route |-> "GET /health", header |-> NoHeader, ip |-> "ip1",
     raw |-> AllOk, idx |-> 1, user |-> NoUser, resp |-> << >>, ran |-> << >>,
     rl |-> "start", key |-> "", hit |-> 0, entry |-> 0]

\* the handler the request is at
StageOf(r) == Chain(r.route)[r.idx]

At(s, kinds) == reqs[s].st = "run" /\ StageOf(reqs[s]).kind \in kinds

\* the request after a handler ran: the handler is recorded, the response it
\* sent (if any) is emitted, and Express goes on to the next handler if it
\* called next
After(r, next, status, code, user) ==
    [r EXCEPT !.ran = Append(@, StageOf(r).kind),
              !.user = user,
              !.resp = IF status # 0 THEN Append(@, Response(status, code)) ELSE @,
              !.idx = IF next THEN @ + 1 ELSE @,
              !.st = IF next /\ r.idx < Len(Chain(r.route)) THEN "run" ELSE "done"]

\* a request is received and routed
Arrive(s, route, header, ip, raw) ==
    /\ reqs[s].st # "run"
    /\ reqs' = [reqs EXCEPT ![s] =
                   [IdleReq EXCEPT !.st = "run", !.route = route, !.header = header,
                                   !.ip = ip, !.raw = raw]]
    /\ arrived' = arrived + 1
    /\ UNCHANGED <<config, now, buckets, log, probe, retry, projects, svc, val, signup>>

DoAuthenticate(s) ==
    /\ At(s, {"authenticate"})
    /\ LET r == reqs[s]
           o == authenticate(r.header, r.user, config.jwtAlgorithm)
       IN reqs' = [reqs EXCEPT ![s] = After(r, o.next, o.status, o.code, o.user)]
    /\ UNCHANGED <<config, now, buckets, arrived, log, probe, retry, projects, svc, val, signup>>

DoCheckRole(s) ==
    /\ At(s, {"checkRole"})
    /\ LET r == reqs[s]
           o == checkRole(StageOf(r).allowedRoles, r.user)
       IN reqs' = [reqs EXCEPT ![s] = After(r, o.next, o.status, o.code, r.user)]
    /\ UNCHANGED <<config, now, buckets, arrived, log, probe, retry, projects, svc, val, signup>>

DoValidate(s) ==
    /\ At(s, {"validate"})
    /\ LET r == reqs[s]
           o == validate(StageOf(r).schemas, r.raw)
       IN reqs' = [reqs EXCEPT ![s] = After(r, o.next, o.status, o.code, r.user)]
    /\ UNCHANGED <<config, now, buckets, arrived, log, probe, retry, projects, svc, val, signup>>

\* the controller answers the request
DoController(s) ==
    /\ At(s, {"controller"})
    /\ LET r == reqs[s]
       IN reqs' = [reqs EXCEPT ![s] = After(r, FALSE, 200, "OK", r.user)]
    /\ UNCHANGED <<config, now, buckets, arrived, log, probe, retry, projects, svc, val, signup>>

\* a limiter receives the request: skipped in the test environment, else the
\* hit is counted in the bucket of the request's key
RateLimitHit(s) ==
    /\ At(s, LimiterKinds)
    /\ reqs[s].rl = "start"
    /\ LET r == reqs[s]
           tier == TierOf(StageOf(r).kind)
           key == KeyGenerator(tier, r.user, r.ip)
           bucket == StoreIncrement(buckets[tier][key], now)
       IN IF Skip(config)
          THEN /\ reqs' = [reqs EXCEPT ![s] = After(r, TRUE, 0, "", r.user)]
               /\ log' = [log EXCEPT ![tier][key] = Append(@, [t |-> now, out |-> "passed"])]
               /\ UNCHANGED buckets
          ELSE /\ buckets' = [buckets EXCEPT ![tier][key] = bucket]
               /\ log' = [log EXCEPT ![tier][key] = Append(@, [t |-> now, out |-> "pending"])]
               /\ reqs' = [reqs EXCEPT ![s] =
                              [r EXCEPT !.rl = "decide", !.key = key, !.hit = bucket.hits,
                                        !.entry = Len(log[tier][key]) + 1]]
    /\ UNCHANGED <<config, now, arrived, probe, retry, projects, svc, val, signup>>

\* the limiter compares the hits counted for the request with max
RateLimitDecide(s) ==
    /\ At(s, LimiterKinds)
    /\ reqs[s].rl = "decide"
    /\ LET r == reqs[s]
           tier == TierOf(StageOf(r).kind)
           over == LimitExceeded(r.hit, TierMax(tier))
           r2 == [r EXCEPT !.rl = "start"]
       IN /\ reqs' = [reqs EXCEPT ![s] =
                         IF over THEN After(r2, FALSE, 429, "RATE_LIMIT_EXCEEDED", r.user)
                         ELSE After(r2, TRUE, 0, "", r.user)]
          /\ log' = [log EXCEPT ![tier][r.key][r.entry].out =
                         IF over THEN "rejected" ELSE "passed"]
    /\ UNCHANGED <<config, now, buckets, arrived, probe, retry, projects, svc, val, signup>>

TickMs == 30 * 1000

\* time passes
Tick ==
    /\ now < MaxTicks * TickMs
    /\ now' = now + TickMs
    /\ UNCHANGED <<config, buckets, reqs, arrived, log, probe, retry, projects, svc, val, signup>>

-----------------------------------------------------------------------------
(* checkRole(allowedRoles) called on one request *)

RoleNames == Roles \cup {"manager"}

ClaimSet(id, role) ==
    [id |-> id, email |-> "e@x", profile_id |-> "p1", profile_name |-> role]

\* the middleware runs: it calls next or answers
CallCheckRole ==
    /\ probe.pc = "call"
    /\ probe' = [probe EXCEPT !.pc = "done",
                              !.out = checkRole(probe.allowedRoles, probe.user)]
    /\ UNCHANGED <<config, now, buckets, reqs, arrived, log, retry, projects, svc, val, signup>>

-----------------------------------------------------------------------------
(* retryRequest *)

\* HTTP_RETRY_DELAY
HttpRetryDelay == 1000

StatusCodes == {400, 404, 408, 429, 499, 500, 503}

\* what the thunk may throw: an AxiosError without a response (network
\* failure, timeout), an AxiosError with a response, or any other error
ThunkErrors ==
    {[isAxios |-> TRUE, hasResponse |-> FALSE, status |-> 0]}
    \cup {[isAxios |-> TRUE, hasResponse |-> TRUE, status |-> c] : c \in StatusCodes}
    \cup {[isAxios |-> FALSE, hasResponse |-> FALSE, status |-> 0]}
    \cup {[isAxios |-> FALSE, hasResponse |-> TRUE, status |-> c] : c \in {404, 503}}

NoError == [isAxios |-> FALSE, hasResponse |-> FALSE, status |-> -1]
\* new Error('Unexpected error in retry logic')
UnexpectedError == [isAxios |-> FALSE, hasResponse |-> FALSE, status |-> -2]

RECURSIVE Pow2(_)
Pow2(n) == IF n <= 0 THEN 1 ELSE 2 * Pow2(n - 1)

\* axios.isAxiosError(error)
axiosIsAxiosError(error) == error.isAxios

\* shouldRetry without the 429 case
ShouldRetry_No429(error) ==
    \/ ~error.hasResponse
    \/ error.status >= 500
    \/ error.status = 408

\* shouldRetry of an AxiosError
ShouldRetry(error) ==
    \/ ~error.hasResponse
    \/ error.status >= 500
    \/ error.status = 408
    \/ error.status = 429

\* the catch block lets the loop go on: errors that are not AxiosErrors are
\* not classified
Retried(error) == axiosIsAxiosError(error) => ShouldRetry(error)

\* a catch block that forgets attempt++
NextAttempt_Forgotten(attempt) == attempt

\* attempt++
NextAttempt(attempt) == attempt + 1

\* the loop condition
MayAttempt(attempt, maxRetries) == attempt <= maxRetries

\* a catch block without the test that the attempts are used up
Exhausted_Never(attempt, maxRetries) == FALSE

\* the catch block throws because the attempts are used up
Exhausted(attempt, maxRetries) == attempt > maxRetries

\* a delay that grows linearly
BackoffDelay_Linear(baseDelay, attempt) == baseDelay * attempt

\* delay = baseDelay * Math.pow(2, attempt - 1)

BackoffDelay(baseDelay, attempt) == baseDelay * Pow2(attempt - 1)

\* requestFn() resolves: retryRequest returns its result
RetrySucceed ==
    /\ retry.pc = "loop"
    /\ MayAttempt(retry.attempt, retry.maxRetries)
    /\ retry' = [retry EXCEPT !.pc = "returned", !.calls = @ + 1]
    /\ UNCHANGED <<config, now, buckets, reqs, arrived, log, probe, projects, svc, val, signup>>

\* requestFn() rejects with error e: the catch block
RetryFail(e) ==
    /\ retry.pc = "loop"
    /\ MayAttempt(retry.attempt, retry.maxRetries)
    /\ LET attempt == NextAttempt(retry.attempt)
           r == [retry EXCEPT !.calls = @ + 1, !.attempt = attempt,
                              !.errors = Append(@, e)]
       IN retry' =
            IF Exhausted(attempt, retry.maxRetries)
            THEN [r EXCEPT !.pc = "thrown", !.thrown = e, !.thrownAt = r.calls]
            ELSE IF ~Retried(e)
            THEN [r EXCEPT !.pc = "thrown", !.thrown = e, !.thrownAt = r.calls]
            ELSE [r EXCEPT !.pc = "sleep",
                           !.delays = Append(@, BackoffDelay(retry.baseDelay, attempt))]
    /\ UNCHANGED <<config, now, buckets, reqs, arrived, log, probe, projects, svc, val, signup>>

\* the delay is over: the loop goes round
RetryWake ==
    /\ retry.pc = "sleep"
    /\ retry' = [retry EXCEPT !.pc = "loop"]
    /\ UNCHANGED <<config, now, buckets, reqs, arrived, log, probe, projects, svc, val, signup>>

\* the loop ends without an attempt having thrown or returned
RetryUnexpected ==
    /\ retry.pc = "loop"
    /\ ~MayAttempt(retry.attempt, retry.maxRetries)
    /\ retry' = [retry EXCEPT !.pc = "thrown", !.thrown = UnexpectedError, !.thrownAt = 0]
    /\ UNCHANGED <<config, now, buckets, reqs, arrived, log, probe, projects, svc, val, signup>>

-----------------------------------------------------------------------------
(* ProjectService.updateProject *)

ProjectIds == {"p1", "p2"}
ProjectNames == {"alpha", "beta", "gamma"}
Statuses == {"pending", "active", "completed", "cancelled"}

Project(user_id, name, status) == [user_id |-> user_id, name |-> name, status |-> status]

\* no row
NoProject == Project(Absent, Absent, Absent)

\* the texts of the errors the store may answer a query with
StoreErrorTexts == {"connection timeout", "relation not found"}
StoreOutcomes == {"ok"} \cup StoreErrorTexts

\* an Error the service throws: its message, and the statuses the message
\* of an invalid transition names
ServiceError(msg, from, to) == [msg |-> msg, from |-> from, to |-> to]
NoServiceError == ServiceError("", Absent, Absent)

\* a graph in which a completed project can be reopened
validTransitions_Reopen(currentStatus) ==
    CASE currentStatus = "pending" -> {"active", "cancelled"}
      [] currentStatus = "active" -> {"completed", "cancelled"}
      [] currentStatus = "completed" -> {"active"}
      [] OTHER -> {}

\* validTransitions of isValidStatusTransition
validTransitions(currentStatus) ==
    CASE currentStatus = "pending" -> {"active", "cancelled"}
      [] currentStatus = "active" -> {"completed", "cancelled"}
      [] OTHER -> {}

\* a validation that accepts every transition
isValidStatusTransition_Any(currentStatus, newStatus) == TRUE

\* validTransitions[currentStatus]?.includes(newStatus) || false
isValidStatusTransition(currentStatus, newStatus) ==
    newStatus \in validTransitions(currentStatus)

\* a selection by id alone
getProjectById_AnyOwner(table, userId, projectId) == table[projectId]

\* the row getProjectById selects: .eq('id', projectId).eq('user_id', userId)
getProjectById(table, userId, projectId) ==
    IF table[projectId] # NoProject /\ table[projectId].user_id = userId
    THEN table[projectId]
    ELSE NoProject

\* the rows the duplicate-name query of updateProject selects
DuplicateRows(table, userId, name, projectId) ==
    {i \in ProjectIds \ {projectId} :
        table[i] # NoProject /\ table[i].user_id = userId /\ table[i].name = name}

\* a comparison that sends every requested status to the graph
StatusChanges_Always(status, existing) == Truthy(status)

\* status && status !== existingProject.status
StatusChanges(status, existing) == Truthy(status) /\ status # existing.status

\* name && name !== existingProject.name
NameChanges(name, existing) == Truthy(name) /\ name # existing.name

\* updateObject applied to a row
ApplyUpdate(row, name, status) ==
    [row EXCEPT !.name = IF name # Absent THEN name ELSE @,
                !.status = IF status # Absent THEN status ELSE @]

\* message.includes(needle) for the messages updateProject can throw
MessageIncludes(msg, needle) ==
    CASE needle = "not found" -> msg \in {"Project not found", "relation not found"}
      [] needle = "already exists" -> msg = "A project with this name already exists"
      [] needle = "Cannot change status" -> msg = "Cannot change status"
      [] OTHER -> FALSE

\* ProjectController.updateProject: the response for an error of the service
UpdateErrorResponse(error) ==
    IF MessageIncludes(error.msg, "not found") THEN Response(404, "PROJECT_NOT_FOUND")
    ELSE IF MessageIncludes(error.msg, "already exists") THEN Response(400, "DUPLICATE_PROJECT_NAME")
    ELSE IF MessageIncludes(error.msg, "Cannot change status")
    THEN Response(400, "INVALID_STATUS_TRANSITION")
    ELSE Response(400, "PROJECT_UPDATE_ERROR")

Callers == 1..MaxCallers

\* the operations of ProjectService a controller calls
Ops == {"create", "list", "get", "update", "delete"}

\* the response of a controller's catch block for an error of the service
ErrorResponse(op, error) ==
    CASE op = "update" -> UpdateErrorResponse(error)
      [] op = "create" ->
           IF MessageIncludes(error.msg, "already exists")
           THEN Response(400, "DUPLICATE_PROJECT_NAME")
           ELSE Response(400, "PROJECT_CREATION_ERROR")
      [] op = "get" ->
           Response(IF MessageIncludes(error.msg, "not found") THEN 404 ELSE 400,
                    "PROJECT_RETRIEVAL_ERROR")
      [] op = "delete" ->
           Response(IF MessageIncludes(error.msg, "not found") THEN 404 ELSE 400,
                    "PROJECT_DELETION_ERROR")
      [] OTHER -> Response(400, "PROJECT_LIST_ERROR")

\* a call of a controller: the operation and its arguments, the step it is
\* at (pc), the row read, the error thrown and the step that threw it (at),
\* the text of the store's error if the store failed (upstream), and the
\* response with its message
IdleCall ==
    [pc |-> "idle", op |-> "update", userId |-> Absent, projectId |-> "p1", name |-> Absent,
     status |-> Absent, existing |-> NoProject, error |-> NoServiceError,
     result |-> NoProject, wrote |-> FALSE, before |-> [i \in ProjectIds |-> NoProject],
     resp |-> Response(0, ""), message |-> "", at |-> "", upstream |-> ""]

CallEnded(c) == svc[c].pc \in {"idle", "returned", "thrown"}

\* the call ends by throwing: the controller answers with the error's code
Throw(call, error) ==
    [call EXCEPT !.pc = "thrown", !.at = call.pc, !.error = error,
                 !.resp = ErrorResponse(call.op, error), !.message = error.msg]

\* the call ends by throwing because the store answered with an error
ThrowUpstream(call, error, text) == [Throw(call, error) EXCEPT !.upstream = text]

\* the status transition is validated, then the update is sent to the store
ValidateTransition(call) ==
    IF /\ StatusChanges(call.status, call.existing)
       /\ ~isValidStatusTransition(call.existing.status, call.status)
    THEN Throw(call, ServiceError("Cannot change status", call.existing.status, call.status))
    ELSE [call EXCEPT !.pc = "write"]

\* the controller calls projectService.updateProject(userId, id, req.body)
CallUpdateProject(c, userId, projectId, name, status) ==
    /\ CallEnded(c)
    /\ svc' = [svc EXCEPT ![c] =
                  [IdleCall EXCEPT !.pc = "get", !.userId = userId, !.projectId = projectId,
                                   !.name = name, !.status = status, !.before = projects]]
    /\ arrived' = arrived + 1
    /\ UNCHANGED <<config, now, buckets, reqs, log, probe, retry, projects, val, signup>>

\* getProjectById answers; the name and the status of the request are
\* compared with the row read
UpdateGet(c, outcome) ==
    /\ svc[c].op = "update"
    /\ svc[c].pc = "get"
    /\ LET call == svc[c]
           row == getProjectById(projects, call.userId, call.projectId)
           read == [call EXCEPT !.existing = row]
       IN svc' = [svc EXCEPT ![c] =
                    IF outcome # "ok"
                    THEN ThrowUpstream(call, ServiceError(outcome, Absent, Absent), outcome)
                    ELSE IF row = NoProject
                    THEN Throw(call, ServiceError("Project not found", Absent, Absent))
                    ELSE IF NameChanges(call.name, row) THEN [read EXCEPT !.pc = "dup"]
                    ELSE ValidateTransition(read)]
    /\ UNCHANGED <<config, now, buckets, reqs, arrived, log, probe, retry, projects, val, signup>>

\* the duplicate-name query answers
UpdateDup(c, outcome) ==
    /\ svc[c].pc = "dup"
    /\ LET call == svc[c]
           rows == DuplicateRows(projects, call.userId, call.name, call.projectId)
       IN svc' = [svc EXCEPT ![c] =
                    IF outcome # "ok"
                    THEN ThrowUpstream(call, ServiceError("Failed to validate project name",
                                                          Absent, Absent), outcome)
                    ELSE IF Cardinality(rows) = 1
                    THEN Throw(call, ServiceError("A project with this name already exists",
                                                  Absent, Absent))
                    ELSE ValidateTransition(call)]
    /\ UNCHANGED <<config, now, buckets, reqs, arrived, log, probe, retry, projects, val, signup>>

\* the store applies the update to the row of the project and the user
UpdateWrite(c, outcome) ==
    /\ svc[c].pc = "write"
    /\ LET call == svc[c]
           row == getProjectById(projects, call.userId, call.projectId)
           updated == ApplyUpdate(row, call.name, call.status)
       IN IF outcome # "ok"
          THEN /\ svc' = [svc EXCEPT ![c] =
                             ThrowUpstream(call, ServiceError(outcome, Absent, Absent), outcome)]
               /\ UNCHANGED projects
          ELSE IF row = NoProject
          THEN /\ svc' = [svc EXCEPT ![c] =
                             Throw(call, ServiceError("no rows returned", Absent, Absent))]
               /\ UNCHANGED projects
          ELSE /\ projects' = [projects EXCEPT ![call.projectId] = updated]
               /\ svc' = [svc EXCEPT ![c] =
                             [call EXCEPT !.pc = "returned", !.result = updated,
                                          !.wrote = TRUE, !.resp = Response(200, "OK"),
                                          !.message = "Project updated successfully"]]
    /\ UNCHANGED <<config, now, buckets, reqs, arrived, log, probe, retry, val, signup>>

-----------------------------------------------------------------------------
(* ProjectService.createProject, getProjects, getProjectById, deleteProject *)

\* the rows the duplicate-name query of createProject selects
ExistingRows(table, userId, name) ==
    {i \in ProjectIds :
        table[i] # NoProject /\ table[i].user_id = userId /\ table[i].name = name}

\* the ids the store can give to a new row
FreeIds(table) == {i \in ProjectIds : table[i] = NoProject}

\* the call ends by returning: the controller answers with a success
Return(call, status, message, row) ==
    [call EXCEPT !.pc = "returned", !.resp = Response(status, "OK"),
                 !.message = message, !.result = row]

\* a controller calls createProject, getProjects, getProjectById or
\* deleteProject of projectService with req.user.id
CallService(c, op, userId, projectId, name) ==
    /\ CallEnded(c)
    /\ svc' = [svc EXCEPT ![c] =
                  [IdleCall EXCEPT !.op = op, !.userId = userId, !.projectId = projectId,
                                   !.name = name, !.before = projects,
                                   !.pc = CASE op = "create" -> "check"
                                            [] op = "list" -> "list"
                                            [] OTHER -> "get"]]
    /\ arrived' = arrived + 1
    /\ UNCHANGED <<config, now, buckets, reqs, log, probe, retry, projects, val, signup>>

\* createProject: the duplicate-name query answers; .single() gives a row
\* only if exactly one matches, and the error of no single row is ignored
CreateCheck(c, outcome) ==
    /\ svc[c].op = "create"
    /\ svc[c].pc = "check"
    /\ LET call == svc[c]
           rows == ExistingRows(projects, call.userId, call.name)
       IN svc' = [svc EXCEPT ![c] =
                    IF outcome # "ok"
                    THEN ThrowUpstream(call, ServiceError("Failed to validate project name",
                                                          Absent, Absent), outcome)
                    ELSE IF Cardinality(rows) = 1
                    THEN Throw(call, ServiceError("A project with this name already exists",
                                                  Absent, Absent))
                    ELSE [call EXCEPT !.pc = "insert"]]
    /\ UNCHANGED <<config, now, buckets, reqs, arrived, log, probe, retry, projects, val, signup>>

\* createProject: the store inserts the row, always as pending
CreateInsert(c, outcome) ==
    /\ svc[c].op = "create"
    /\ svc[c].pc = "insert"
    /\ LET call == svc[c] IN
       IF outcome # "ok"
       THEN /\ svc' = [svc EXCEPT ![c] =
                          ThrowUpstream(call, ServiceError(outcome, Absent, Absent), outcome)]
            /\ UNCHANGED projects
       ELSE \E id \in FreeIds(projects) :
               LET row == Project(call.userId, call.name, "pending") IN
               /\ projects' = [projects EXCEPT ![id] = row]
               /\ svc' = [svc EXCEPT ![c] =
                             [Return(call, 201, "Project created successfully", row)
                                 EXCEPT !.projectId = id, !.wrote = TRUE]]
    /\ UNCHANGED <<config, now, buckets, reqs, arrived, log, probe, retry, val, signup>>

\* getProjects: the query of the user's rows answers
ListProjects(c, outcome) ==
    /\ svc[c].op = "list"
    /\ svc[c].pc = "list"
    /\ LET call == svc[c] IN
       svc' = [svc EXCEPT ![c] =
                  IF outcome # "ok"
                  THEN ThrowUpstream(call, ServiceError(outcome, Absent, Absent), outcome)
                  ELSE Return(call, 200, "Projects retrieved successfully", NoProject)]
    /\ UNCHANGED <<config, now, buckets, reqs, arrived, log, probe, retry, projects, val, signup>>

\* getProjectById answers the controller of GET /api/projects/:id, or
\* deleteProject, which then sends the delete
GetProject(c, outcome) ==
    /\ svc[c].op \in {"get", "delete"}
    /\ svc[c].pc = "get"
    /\ LET call == svc[c]
           row == getProjectById(projects, call.userId, call.projectId)
       IN svc' = [svc EXCEPT ![c] =
                    IF outcome # "ok"
                    THEN ThrowUpstream(call, ServiceError(outcome, Absent, Absent), outcome)
                    ELSE IF row = NoProject
                    THEN Throw(call, ServiceError("Project not found", Absent, Absent))
                    ELSE IF call.op = "get"
                    THEN Return([call EXCEPT !.existing = row], 200,
                                "Project details retrieved", row)
                    ELSE [call EXCEPT !.existing = row, !.pc = "delete"]]
    /\ UNCHANGED <<config, now, buckets, reqs, arrived, log, probe, retry, projects, val, signup>>

\* deleteProject: the store deletes the row of the project and the user
DeleteRow(c, outcome) ==
    /\ svc[c].op = "delete"
    /\ svc[c].pc = "delete"
    /\ LET call == svc[c]
           row == getProjectById(projects, call.userId, call.projectId)
       IN IF outcome # "ok"
          THEN /\ svc' = [svc EXCEPT ![c] =
                             ThrowUpstream(call, ServiceError(outcome, Absent, Absent), outcome)]
               /\ UNCHANGED projects
          ELSE /\ projects' = IF row = NoProject THEN projects
                              ELSE [projects EXCEPT ![call.projectId] = NoProject]
               /\ svc' = [svc EXCEPT ![c] =
                             [Return(call, 200, "Project deleted successfully", NoProject)
                                 EXCEPT !.wrote = row # NoProject]]
    /\ UNCHANGED <<config, now, buckets, reqs, arrived, log, probe, retry, val, signup>>

-----------------------------------------------------------------------------

(* projectValidation.listProjects and validate(schemas) called on one request *)

\* a number, or NaN
Num(n) == [nan |-> FALSE, n |-> n]
NaN == [nan |-> TRUE, n |-> 0]

\* a query parameter given twice reaches the schema as an array
ArrayValue == "<array>"

\* the values of the page and limit parameters of a query string
QueryStrings ==
    {Absent, "", "0", "1", "2", "-1", "1.5", "12abc", "100", "101", "abc", ArrayValue}

\* parseInt(val, 10)
ParseInt(str) ==
    CASE str = "0" -> Num(0)
      [] str = "1" -> Num(1)
      [] str = "2" -> Num(2)
      [] str = "-1" -> Num(0 - 1)
      [] str = "1.5" -> Num(1)
      [] str = "12abc" -> Num(12)
      [] str = "100" -> Num(100)
      [] str = "101" -> Num(101)
      [] OTHER -> NaN

\* z.string().optional()
IsOptionalString(v) == v # ArrayValue

\* pagination.page: transform((val) => val ? parseInt(val, 10) : 1)
PageTransform(v) == IF Truthy(v) THEN ParseInt(v) ELSE Num(1)

\* pagination.limit: transform((val) => val ? parseInt(val, 10) : 10)
LimitTransform(v) == IF Truthy(v) THEN ParseInt(v) ELSE Num(10)

\* pagination.page: refine((val) => val > 0)
PageRefine(x) == ~x.nan /\ x.n > 0

\* a refinement of limit without the upper bound
LimitRefine_NoUpperBound(x) == ~x.nan /\ x.n > 0

\* pagination.limit: refine((val) => val > 0 && val <= 100)
LimitRefine(x) == ~x.nan /\ x.n > 0 /\ x.n <= 100

NoQuery == [page |-> Absent, limit |-> Absent]

\* projectValidation.listProjects.query.parse(query): the issues found, in
\* the order of the fields, and the value returned when there is none
listProjectsParse(query) ==
    LET pageBad == ~IsOptionalString(query.page) \/ ~PageRefine(PageTransform(query.page))
        limitBad == ~IsOptionalString(query.limit) \/ ~LimitRefine(LimitTransform(query.limit))
    IN [issues |-> (IF pageBad THEN <<"page">> ELSE << >>)
                   \o (IF limitBad THEN <<"limit">> ELSE << >>),
        value |-> [page |-> PageTransform(query.page), limit |-> LimitTransform(query.limit)]]

\* what the parse of the query does, as an input of validate
QueryInput(query) ==
    LET n == Len(listProjectsParse(query).issues) IN
    IF n = 0 THEN "ok" ELSE IF n = 1 THEN "bad1" ELSE "bad2"

IdleVal ==
    [pc |-> "idle", schemas |-> {}, raw |-> AllOk, listing |-> FALSE, query |-> NoQuery,
     out |-> validate({}, AllOk), parsed |-> [page |-> Num(0), limit |-> Num(0)],
     facets |-> FacetsAfter({}, AllOk)]

\* the middleware runs: req.query is replaced by the value the schema
\* returns, then next is called or the errors are answered
CallValidate ==
    /\ val.pc = "call"
    /\ val' = [val EXCEPT !.pc = "done",
                          !.out = validate(val.schemas, val.raw),
                          !.facets = FacetsAfter(val.schemas, val.raw),
                          !.parsed = IF val.listing /\ val.raw["query"] = "ok"
                                     THEN listProjectsParse(val.query).value ELSE @]
    /\ UNCHANGED <<config, now, buckets, reqs, arrived, log, probe, retry, projects, svc, signup>>

-----------------------------------------------------------------------------
(* AuthService.createUser *)

Emails == {"a@x", "b@x"}

\* how a call of the identity store or of the users table ends: it resolves
\* with data, resolves with an error object, or rejects
RemoteOutcomes == {"ok", "error", "rejects"}

\* one call of createUser: the step it is at, the email of the user to
\* create, the emails registered in the identity store (Supabase Auth) and
\* in the users table now and when the call started, and the error thrown
IdleSignup ==
    [pc |-> "idle", email |-> "a@x", auth |-> {}, users |-> {},
     beforeAuth |-> {}, beforeUsers |-> {}, error |-> ""]

\* step 1: supabaseAdmin.auth.admin.createUser; an email already registered
\* is refused
AuthCreateUser(outcome) ==
    /\ signup.pc = "auth"
    /\ outcome = "ok" => signup.email \notin signup.auth
    /\ signup' = IF outcome = "ok"
                 THEN [signup EXCEPT !.pc = "insert", !.auth = @ \cup {signup.email}]
                 ELSE [signup EXCEPT !.pc = "thrown", !.error = "auth"]
    /\ UNCHANGED <<config, now, buckets, reqs, arrived, log, probe, retry, projects, svc, val>>

\* step 2: insert into users; email is unique in the table. A failure takes
\* the call to the catch block that cleans up
InsertSystemUser(outcome) ==
    /\ signup.pc = "insert"
    /\ outcome = "ok" => signup.email \notin signup.users
    /\ signup' = IF outcome = "ok"
                 THEN [signup EXCEPT !.pc = "email", !.users = @ \cup {signup.email}]
                 ELSE [signup EXCEPT !.pc = "cleanup", !.error = "system"]
    /\ UNCHANGED <<config, now, buckets, reqs, arrived, log, probe, retry, projects, svc, val>>

\* the catch block: await supabaseAdmin.auth.admin.deleteUser(id), whose
\* result is not looked at, then throw systemErr; if the call rejects, its
\* error is thrown instead
CleanupAuthUser(outcome) ==
    /\ signup.pc = "cleanup"
    /\ signup' = IF outcome = "ok"
                 THEN [signup EXCEPT !.pc = "thrown", !.auth = @ \ {signup.email}]
                 ELSE IF outcome = "error"
                 THEN [signup EXCEPT !.pc = "thrown"]
                 ELSE [signup EXCEPT !.pc = "thrown", !.error = "cleanup"]
    /\ UNCHANGED <<config, now, buckets, reqs, arrived, log, probe, retry, projects, svc, val>>

\* step 3: generateLink; a failure is logged and the user is returned
SendResetEmail(outcome) ==
    /\ signup.pc = "email"
    /\ signup' = [signup EXCEPT !.pc = "returned"]
    /\ UNCHANGED <<config, now, buckets, reqs, arrived, log, probe, retry, projects, svc, val>>

-----------------------------------------------------------------------------

(* Initial states *)

\* no call of the service in progress, an empty projects table
ServiceIdle ==
    /\ projects = [i \in ProjectIds |-> NoProject]
    /\ svc = [c \in Callers |-> IdleCall]

IdleProbe == [pc |-> "idle", allowedRoles |-> {}, user |-> NoUser,
              out |-> checkRole({}, NoUser)]

IdleRetry ==
    [pc |-> "idle", maxRetries |-> 0, baseDelay |-> HttpRetryDelay, attempt |-> 0,
     calls |-> 0, errors |-> << >>, delays |-> << >>, thrown |-> NoError, thrownAt |-> 0]

DefaultConfig == [nodeEnv |-> "development", jwtAlgorithm |-> "HS256"]

ServerStarted ==
    /\ now = 0
    /\ buckets = [t \in Tiers |-> [k \in Keys |-> NewBucket]]
    /\ log = [t \in Tiers |-> [k \in Keys |-> << >>]]
    /\ reqs = [s \in Slots |-> IdleReq]
    /\ arrived = 0

\* the store after n requests of every key were counted at time 0
CountedBucket(n) ==
    IF n = 0 THEN NewBucket ELSE [hits |-> n, resetTime |-> WindowMs]

\* the server is running, in any environment; the limiters have either
\* seen no request yet or let through their maximum for every key in the
\* window that is open
Init ==
    /\ config \in [nodeEnv : NodeEnvs, jwtAlgorithm : {"HS256"}]
    /\ now = 0
    /\ \E full \in BOOLEAN :
          LET n(t) == IF full /\ ~Skip(config) THEN TierMax(t) ELSE 0
              m(t) == IF full THEN TierMax(t) ELSE 0
          IN /\ buckets = [t \in Tiers |-> [k \in Keys |-> CountedBucket(n(t))]]
             /\ log = [t \in Tiers |-> [k \in Keys |->
                          [i \in 1..m(t) |-> [t |-> 0, out |-> "passed"]]]]
    /\ reqs = [s \in Slots |-> IdleReq]
    /\ arrived = 0
    /\ probe = IdleProbe
    /\ retry = IdleRetry
    /\ ServiceIdle
    /\ val = IdleVal
    /\ signup = IdleSignup

\* the server has started, in any environment
InitLimit ==
    /\ config \in [nodeEnv : {"development", "test"}, jwtAlgorithm : {"HS256"}]
    /\ ServerStarted
    /\ probe = IdleProbe
    /\ retry = IdleRetry
    /\ ServiceIdle
    /\ val = IdleVal
    /\ signup = IdleSignup

\* one request with any Authorization header is at authenticate
InitAuth ==
    /\ config \in [nodeEnv : {"development"}, jwtAlgorithm : Algorithms]
    /\ now = 0
    /\ buckets = [t \in Tiers |-> [k \in Keys |-> NewBucket]]
    /\ log = [t \in Tiers |-> [k \in Keys |-> << >>]]
    /\ \E h \in Headers :
          reqs = [s \in Slots |->
                    IF s = 1 THEN [IdleReq EXCEPT !.st = "run", !.route = "GET /api/auth/me",
                                                  !.header = h]
                    ELSE IdleReq]
    /\ arrived = 1
    /\ probe = IdleProbe
    /\ retry = IdleRetry
    /\ ServiceIdle
    /\ val = IdleVal
    /\ signup = IdleSignup

\* checkRole(allowedRoles) is about to run on a request
InitRole ==
    /\ config = DefaultConfig
    /\ ServerStarted
    /\ probe \in [pc : {"call"}, allowedRoles : SUBSET RoleNames,
                  user : {ClaimSet("u1", role) : role \in RoleNames} \cup {NoUser},
                  out : {checkRole({}, NoUser)}]
    /\ retry = IdleRetry
    /\ ServiceIdle
    /\ val = IdleVal
    /\ signup = IdleSignup

\* retryRequest(requestFn, maxRetries) is called
InitRetry ==
    /\ config = DefaultConfig
    /\ ServerStarted
    /\ probe = IdleProbe
    /\ \E m \in -1..MaxRetriesBound :
          retry = [IdleRetry EXCEPT !.pc = "loop", !.maxRetries = m]
    /\ ServiceIdle
    /\ val = IdleVal
    /\ signup = IdleSignup

\* the tables the store may hold when a call is made: the project p1 of user
\* u1 in any status, and a second project that is u1's or u2's
InitialTables ==
    {[i \in ProjectIds |->
        IF i = "p1" THEN Project("u1", "alpha", s) ELSE Project(o, "beta", "pending")] :
     s \in Statuses, o \in UserIds}

\* the store holds the project p1 of user u1 and has room for another row
InitRace ==
    /\ config = DefaultConfig
    /\ ServerStarted
    /\ probe = IdleProbe
    /\ retry = IdleRetry
    /\ \E s \in Statuses :
          projects = [i \in ProjectIds |->
                         IF i = "p1" THEN Project("u1", "alpha", s) ELSE NoProject]
    /\ svc = [c \in Callers |-> IdleCall]
    /\ val = IdleVal
    /\ signup = IdleSignup

\* the store holds the project p1 of user u1 and a second row that is u1's
\* project, u2's project or free
InitService ==
    /\ config = DefaultConfig
    /\ ServerStarted
    /\ probe = IdleProbe
    /\ retry = IdleRetry
    /\ \E s \in {"pending", "completed"}, o \in UserIds \cup {Absent} :
          projects = [i \in ProjectIds |->
                         IF i = "p1" THEN Project("u1", "alpha", s)
                         ELSE IF o = Absent THEN NoProject
                         ELSE Project(o, "beta", "pending")]
    /\ svc = [c \in Callers |-> IdleCall]
    /\ val = IdleVal
    /\ signup = IdleSignup

\* the server is running and the store holds projects
InitProject ==
    /\ config = DefaultConfig
    /\ ServerStarted
    /\ probe = IdleProbe
    /\ retry = IdleRetry
    /\ projects \in InitialTables
    /\ svc = [c \in Callers |-> IdleCall]
    /\ val = IdleVal
    /\ signup = IdleSignup

\* validate(schemas) is about to run: with any schemas on any facets, or
\* with projectValidation.listProjects on any page and limit
InitValidate ==
    /\ config = DefaultConfig
    /\ signup = IdleSignup
    /\ ServerStarted
    /\ probe = IdleProbe
    /\ retry = IdleRetry
    /\ ServiceIdle
    /\ \/ \E schemas \in SUBSET {"body", "params", "query"},
             raw \in [{"body", "params", "query"} -> FacetInputs] :
               val = [IdleVal EXCEPT !.pc = "call", !.schemas = schemas, !.raw = raw]
       \/ \E query \in [page : QueryStrings, limit : QueryStrings] :
               val = [IdleVal EXCEPT !.pc = "call", !.schemas = {"query"}, !.listing = TRUE,
                                     !.query = query,
                                     !.raw = [AllOk EXCEPT !["query"] = QueryInput(query)]]

-----------------------------------------------------------------------------
(* Specifications *)

Token(alg, sigOK, expired, payload) ==
    [form |-> "jwt", alg |-> alg, sigOK |-> sigOK, expired |-> expired, payload |-> payload]

AdminU1 == Bearer(Token("HS256", TRUE, FALSE, ClaimSet("u1", "admin")))
UserU2 == Bearer(Token("HS256", TRUE, FALSE, ClaimSet("u2", "user")))

\* the Authorization headers the clients of the pipeline send
ClientHeaders ==
    {NoHeader, OtherHeader, Bearer(GarbageToken), AdminU1, UserU2,
     Bearer(Token("HS256", FALSE, FALSE, ClaimSet("u1", "admin"))),
     Bearer(Token("HS256", TRUE, TRUE, ClaimSet("u1", "admin"))),
     Bearer(Token("HS256", TRUE, FALSE, ClaimSet("u1", Absent)))}

\* the raw facets of a request of the route: any value for a validated
\* facet
RawInputs(route) ==
    {raw \in [{"body", "params", "query"} -> {"ok", "bad1", "throw"}] :
        \A f \in {"body", "params", "query"} : f \notin SchemasOf(route) => raw[f] = "ok"}

\* requests are served one at a time
ArriveAlone ==
    /\ arrived < MaxAlone
    /\ \A s \in Slots : reqs[s].st # "run"
    /\ \E route \in Routes, header \in ClientHeaders :
          \E raw \in RawInputs(route) : Arrive(1, route, header, "ip1", raw)

Next ==
    \/ ArriveAlone
    \/ \E s \in Slots : DoAuthenticate(s)
    \/ \E s \in Slots : DoCheckRole(s)
    \/ \E s \in Slots : RateLimitHit(s)
    \/ \E s \in Slots : RateLimitDecide(s)
    \/ \E s \in Slots : DoValidate(s)
    \/ \E s \in Slots : DoController(s)

Spec == Init /\ [][Next]_vars

Client(route, header, ip) == [route |-> route, header |-> header, ip |-> ip]

\* the requests that arrive concurrently: an anonymous client on the limiter
\* keyed by address, a user on the limiter keyed by user
BusyClients ==
    {Client("GET /health", NoHeader, "ip1"),
     Client("GET /api/projects", UserU2, "ip1")}

\* requests are served concurrently
ArriveConcurrent ==
    /\ arrived < MaxArrivals
    /\ \E s \in Slots, c \in BusyClients :
          /\ \A z \in 1..(s - 1) : reqs[z].st = "run"
          /\ Arrive(s, c.route, c.header, c.ip, AllOk)

NextLimit ==
    \/ ArriveConcurrent
    \/ \E s \in Slots : DoAuthenticate(s)
    \/ \E s \in Slots : RateLimitHit(s)
    \/ \E s \in Slots : RateLimitDecide(s)
    \/ \E s \in Slots : DoValidate(s)
    \/ \E s \in Slots : DoController(s)
    \/ Tick

SpecLimit == InitLimit /\ [][NextLimit]_vars

\* the rows of the users table with the name of their profile, as login
\* selects them
SystemUsers == {ClaimSet(id, role) : id \in UserIds, role \in {"admin", "user"}}

\* AuthService.login, step 4: jwt.sign(payload, config.jwt.secret,
\* {expiresIn}) names no algorithm, so the token is signed with the
\* library's default HS256 whatever config.jwt.algorithm is
login(userData) ==
    Token("HS256", TRUE, FALSE,
          [id |-> userData.id, email |-> userData.email, profile_id |-> userData.profile_id,
           profile_name |-> IF Truthy(userData.profile_name) THEN userData.profile_name
                            ELSE "user"])

NextAuth ==
    \/ \E s \in Slots : DoAuthenticate(s)
    \/ \E s \in Slots : DoController(s)

SpecAuth == InitAuth /\ [][NextAuth]_vars

NextRole == CallCheckRole

SpecRole == InitRole /\ [][NextRole]_vars

NextRetry ==
    \/ RetrySucceed
    \/ \E e \in ThunkErrors : RetryFail(e)
    \/ RetryWake
    \/ RetryUnexpected

SpecRetry == InitRetry /\ [][NextRetry]_vars

\* the bodies of the update requests: a name, a status or both
UpdateBodies ==
    {b \in [name : ProjectNames \cup {Absent}, status : Statuses \cup {Absent}] :
        b.name # Absent \/ b.status # Absent}

\* updates of the project p1 are requested one at a time
UpdateAlone ==
    /\ arrived < MaxCalls
    /\ \A c \in Callers : CallEnded(c)
    /\ \E userId \in UserIds, b \in UpdateBodies :
          CallUpdateProject(1, userId, "p1", b.name, b.status)

NextProject ==
    \/ UpdateAlone
    \/ \E c \in Callers, outcome \in StoreOutcomes : UpdateGet(c, outcome)
    \/ \E c \in Callers, outcome \in StoreOutcomes : UpdateDup(c, outcome)
    \/ \E c \in Callers, outcome \in StoreOutcomes : UpdateWrite(c, outcome)

SpecProject == InitProject /\ [][NextProject]_vars

\* a call of a controller: the operation and the arguments it takes
ServiceCall(op, userId, projectId, name, status) ==
    [op |-> op, userId |-> userId, projectId |-> projectId, name |-> name, status |-> status]

\* caller c starts the call
StartCall(c, k) ==
    IF k.op = "update"
    THEN CallUpdateProject(c, k.userId, k.projectId, k.name, k.status)
    ELSE CallService(c, k.op, k.userId, k.projectId, k.name)

\* the store answers the query a call is waiting for
StoreAnswers ==
    \/ \E c \in Callers, outcome \in StoreOutcomes : UpdateGet(c, outcome)
    \/ \E c \in Callers, outcome \in StoreOutcomes : UpdateDup(c, outcome)
    \/ \E c \in Callers, outcome \in StoreOutcomes : UpdateWrite(c, outcome)
    \/ \E c \in Callers, outcome \in StoreOutcomes : CreateCheck(c, outcome)
    \/ \E c \in Callers, outcome \in StoreOutcomes : CreateInsert(c, outcome)
    \/ \E c \in Callers, outcome \in StoreOutcomes : GetProject(c, outcome)
    \/ \E c \in Callers, outcome \in StoreOutcomes : DeleteRow(c, outcome)
    \/ \E c \in Callers, outcome \in StoreOutcomes : ListProjects(c, outcome)

\* the requests user u1 sends at the same time: a new status or a new name
\* for the project p1, a new project
RaceCalls ==
    {ServiceCall("update", "u1", "p1", Absent, s) : s \in Statuses}
    \cup {ServiceCall("update", "u1", "p1", "beta", Absent),
          ServiceCall("create", "u1", "p1", "beta", Absent)}

\* a request arrives while the calls of earlier ones are still running
ArriveRace ==
    /\ arrived < MaxCallers
    /\ \E k \in RaceCalls : StartCall(arrived + 1, k)

NextRace ==
    \/ ArriveRace
    \/ \E c \in Callers, outcome \in StoreOutcomes : UpdateGet(c, outcome)
    \/ \E c \in Callers, outcome \in StoreOutcomes : UpdateDup(c, outcome)
    \/ \E c \in Callers, outcome \in StoreOutcomes : UpdateWrite(c, outcome)
    \/ \E c \in Callers, outcome \in StoreOutcomes : CreateCheck(c, outcome)
    \/ \E c \in Callers, outcome \in StoreOutcomes : CreateInsert(c, outcome)

SpecRace == InitRace /\ [][NextRace]_vars

\* the requests of the two users, on both projects
ServiceCalls ==
    {ServiceCall("create", u, "p1", "beta", Absent) : u \in UserIds}
    \cup {ServiceCall("list", u, "p1", Absent, Absent) : u \in UserIds}
    \cup {ServiceCall(op, u, i, Absent, Absent) :
             op \in {"get", "delete"}, u \in UserIds, i \in ProjectIds}
    \cup {ServiceCall("update", u, i, "gamma", Absent) : u \in UserIds, i \in ProjectIds}
    \cup {ServiceCall("update", u, i, Absent, "active") : u \in UserIds, i \in ProjectIds}

\* requests arrive one after the other, each after the call before it ended
ArriveInTurn ==
    /\ arrived < MaxCallers
    /\ \A c \in Callers : CallEnded(c)
    /\ \E k \in ServiceCalls : StartCall(arrived + 1, k)

NextService ==
    \/ ArriveInTurn
    \/ StoreAnswers

SpecService == InitService /\ [][NextService]_vars

\* createUser is called for an email, the two stores holding any users
InitCreateUser ==
    /\ config = DefaultConfig
    /\ ServerStarted
    /\ probe = IdleProbe
    /\ retry = IdleRetry
    /\ ServiceIdle
    /\ val = IdleVal
    /\ \E email \in Emails, auth \in SUBSET Emails, users \in SUBSET Emails :
          signup = [IdleSignup EXCEPT !.pc = "auth", !.email = email,
                                      !.auth = auth, !.users = users,
                                      !.beforeAuth = auth, !.beforeUsers = users]

NextCreateUser ==
    \/ \E outcome \in RemoteOutcomes : AuthCreateUser(outcome)
    \/ \E outcome \in RemoteOutcomes : InsertSystemUser(outcome)
    \/ \E outcome \in RemoteOutcomes : CleanupAuthUser(outcome)
    \/ \E outcome \in RemoteOutcomes : SendResetEmail(outcome)

SpecCreateUser == InitCreateUser /\ [][NextCreateUser]_vars

\* the clients of the four limiters: two addresses, two users, each user
\* from both addresses
KeyedClients ==
    {Client("GET /health", NoHeader, ip) : ip \in Ips}
    \cup {Client("POST /api/auth/login", h, ip) : h \in {NoHeader, UserU2}, ip \in Ips}
    \cup {Client("GET /api/projects", h, ip) : h \in {AdminU1, UserU2}, ip \in Ips}
    \cup {Client("POST /api/auth/users", AdminU1, ip) : ip \in Ips}

\* requests of the clients are served one at a time
ArriveKeyed ==
    /\ arrived < MaxArrivals
    /\ \A s \in Slots : reqs[s].st # "run"
    /\ \E c \in KeyedClients : Arrive(1, c.route, c.header, c.ip, AllOk)

NextKeys ==
    \/ ArriveKeyed
    \/ \E s \in Slots : DoAuthenticate(s)
    \/ \E s \in Slots : DoCheckRole(s)
    \/ \E s \in Slots : RateLimitHit(s)
    \/ \E s \in Slots : RateLimitDecide(s)
    \/ \E s \in Slots : DoValidate(s)
    \/ \E s \in Slots : DoController(s)

SpecKeys == InitLimit /\ [][NextKeys]_vars

\* the four limiters over several windows
NextBypass ==
    \/ NextKeys
    \/ Tick

SpecBypass == InitLimit /\ [][NextBypass]_vars

NextValidate == CallValidate

SpecValidate == InitValidate /\ [][NextValidate]_vars

-----------------------------------------------------------------------------
(* Properties of the pipeline *)

GateKinds == LimiterKinds \cup {"authenticate", "checkRole", "validate"}

\* the codes of the responses by which the gatekeeping stages reject
RejectionCodes ==
    {"MISSING_TOKEN", "MALFORMED_TOKEN", "EXPIRED_TOKEN", "INVALID_TOKEN",
     "INSUFFICIENT_PERMISSIONS", "VALIDATION_ERROR", "RATE_LIMIT_EXCEEDED"}

RejectedByGate(r) == \E i \in 1..Len(r.resp) : r.resp[i].code \in RejectionCodes

\* the handlers that ran are the first n of the route's chain
RanFirst(r, n) ==
    /\ Len(r.ran) = n
    /\ \A i \in 1..n : r.ran[i] = Chain(r.route)[i].kind

\* C1: on every route, a request rejected by a gatekeeping stage (a rate
\* limiter, authenticate, checkRole, validate) gets exactly one response,
\* and the rejecting stage is the last handler that runs: no later stage and
\* no controller runs. A request without a Bearer authorization header to an
\* admin-only route is answered 401 MISSING_TOKEN with authenticate the only
\* handler that ran (no checkRole, adminRateLimit or validate).
C1_RejectionHaltsChain ==
    \A s \in Slots :
        LET r == reqs[s] IN
        /\ RejectedByGate(r) =>
              /\ Len(r.resp) = 1
              /\ r.st = "done"
              /\ RanFirst(r, r.idx)
              /\ StageOf(r).kind \in GateKinds
              /\ \A i \in 1..Len(r.ran) : r.ran[i] # "controller"
        /\ (r.st = "done" /\ r.route \in AdminRoutes /\ r.header.kind # "bearer") =>
              /\ r.resp = <<Response(401, "MISSING_TOKEN")>>
              /\ r.ran = <<"authenticate">>

\* C1 witness: a request without Authorization header to an admin-only route
\* has been answered
C1_Witness ==
    \E s \in Slots :
        /\ reqs[s].st = "done"
        /\ reqs[s].route \in AdminRoutes
        /\ reqs[s].header = NoHeader
        /\ RejectedByGate(reqs[s])

StageRank(kind) ==
    CASE kind = "authenticate" -> 1
      [] kind = "checkRole" -> 2
      [] kind = "validate" -> 3
      [] OTHER -> 0

\* C2: within one request, on every route of authRoutes and projectRoutes,
\* authenticate runs before checkRole and checkRole before validate (for
\* those the route has), each once; and checkRole is invoked only on a
\* request on which authenticate has run and stored a Claim Set.
C2_StageOrder ==
    \A s \in Slots :
        LET r == reqs[s] IN
        (r.st # "idle" /\ r.route \in AuthRoutes \cup ProjectRoutes) =>
            /\ \A i, j \in 1..Len(r.ran) :
                  (i < j /\ StageRank(r.ran[i]) > 0 /\ StageRank(r.ran[j]) > 0)
                      => StageRank(r.ran[i]) < StageRank(r.ran[j])
            /\ (At(s, {"checkRole"}) \/ \E i \in 1..Len(r.ran) : r.ran[i] = "checkRole") =>
                  /\ r.user # NoUser
                  /\ \E i \in 1..Len(r.ran) :
                        /\ r.ran[i] = "authenticate"
                        /\ \A j \in 1..i : r.ran[j] # "checkRole"

\* C2 witness: a request went through authenticate, checkRole and validate
C2_Witness ==
    \E s \in Slots :
        /\ reqs[s].st = "done"
        /\ reqs[s].ran = <<"authenticate", "checkRole", "adminRateLimit", "validate", "controller">>

-----------------------------------------------------------------------------
(* Properties of authenticate *)

\* the token is correctly signed with the configured algorithm and unexpired
ValidSignedToken(header) ==
    /\ header.kind = "bearer"
    /\ header.token.form = "jwt"
    /\ header.token.alg = config.jwtAlgorithm
    /\ header.token.sigOK
    /\ ~header.token.expired

Present(v) == v # Absent

AllFourPresent(p) ==
    Present(p.id) /\ Present(p.email) /\ Present(p.profile_id) /\ Present(p.profile_name)

AllFourTruthy(p) ==
    Truthy(p.id) /\ Truthy(p.email) /\ Truthy(p.profile_id) /\ Truthy(p.profile_name)

AuthenticateRan(r) == Len(r.ran) >= 1 /\ r.ran[1] = "authenticate"

\* authenticate stored the payload as the Claim Set and called next
Accepted(r) == r.user = r.header.token.payload /\ r.idx > 1

\* authenticate answered with the invalid-token-payload failure, stored
\* nothing and did not call next
PayloadRejected(r) ==
    /\ r.resp = <<Response(401, "INVALID_TOKEN")>>
    /\ r.user = NoUser
    /\ r.idx = 1
    /\ r.st = "done"

\* C3 as stated: given a correctly signed unexpired token, authenticate
\* stores the payload and calls next if and only if the four fields are
\* present, and fails with the invalid-token-payload failure otherwise.
C3_Original ==
    \A s \in Slots :
        LET r == reqs[s] IN
        (AuthenticateRan(r) /\ ValidSignedToken(r.header)) =>
            /\ Accepted(r) <=> AllFourPresent(r.header.token.payload)
            /\ ~AllFourPresent(r.header.token.payload) => PayloadRejected(r)

\* C3 amended: given a correctly signed unexpired token, authenticate stores
\* the payload and calls next if and only if the four fields are present
\* with non-empty values; if one is missing or empty it answers with the
\* invalid-token-payload failure, stores no Claim Set and does not call next.
C3_TruthyFields ==
    \A s \in Slots :
        LET r == reqs[s] IN
        (AuthenticateRan(r) /\ ValidSignedToken(r.header)) =>
            /\ Accepted(r) <=> AllFourTruthy(r.header.token.payload)
            /\ ~AllFourTruthy(r.header.token.payload) => PayloadRejected(r)

\* C3 witness: a valid token whose payload holds the four fields was accepted
C3_Witness ==
    \E s \in Slots :
        /\ AuthenticateRan(reqs[s])
        /\ ValidSignedToken(reqs[s].header)
        /\ AllFourTruthy(reqs[s].header.token.payload)
        /\ Accepted(reqs[s])

\* the failure class of an Authorization header
FailureClass(header) ==
    IF header.kind # "bearer" THEN "missing"
    ELSE IF header.token.form # "jwt" \/ header.token.alg # config.jwtAlgorithm
            \/ ~header.token.sigOK THEN "malformed"
    ELSE IF header.token.expired THEN "expired"
    ELSE IF ~AllFourPresent(header.token.payload) THEN "payload"
    ELSE "none"

FailureClasses == {"missing", "malformed", "expired", "payload"}

CodeOfClass(class) ==
    CASE class = "missing" -> "MISSING_TOKEN"
      [] class = "malformed" -> "MALFORMED_TOKEN"
      [] class = "expired" -> "EXPIRED_TOKEN"
      [] class = "payload" -> "INVALID_TOKEN"

\* C4: each of the four failure classes of authenticate (no header or not
\* 'Bearer ', bad signature or algorithm, expired, valid signature with a
\* required field missing) is answered with the code of its class, the four
\* codes differ, and each answer is a 401 without next being called.
C4_FailureCodes ==
    /\ \A c, d \in FailureClasses : c # d => CodeOfClass(c) # CodeOfClass(d)
    /\ \A s \in Slots :
          LET r == reqs[s] IN
          (AuthenticateRan(r) /\ FailureClass(r.header) \in FailureClasses) =>
              /\ r.resp = <<Response(401, CodeOfClass(FailureClass(r.header)))>>
              /\ r.idx = 1
              /\ r.st = "done"
              /\ r.user = NoUser

\* C4 witness: an expired token was answered
C4_Witness ==
    \E s \in Slots :
        /\ AuthenticateRan(reqs[s])
        /\ FailureClass(reqs[s].header) = "expired"
        /\ reqs[s].st = "done"

-----------------------------------------------------------------------------
(* Properties of checkRole *)

\* C5: for every role and every allowedRoles, checkRole(allowedRoles) calls
\* next if and only if the Claim Set's profile_name equals an element of
\* allowedRoles; otherwise it answers 403 INSUFFICIENT_PERMISSIONS with the
\* required set and the actual role and does not call next.
C5_RoleMembership ==
    (probe.pc = "done" /\ probe.user # NoUser) =>
        /\ probe.out.next <=> \E a \in probe.allowedRoles : a = probe.user.profile_name
        /\ probe.out.next => probe.out.status = 0
        /\ ~probe.out.next =>
              /\ probe.out.status = 403
              /\ probe.out.code = "INSUFFICIENT_PERMISSIONS"
              /\ probe.out.required = probe.allowedRoles
              /\ probe.out.current = probe.user.profile_name

\* C5 witness: role "user" against the requirement {"admin"} was refused
C5_Witness ==
    /\ probe.pc = "done"
    /\ probe.user # NoUser
    /\ probe.user.profile_name = "user"
    /\ probe.allowedRoles = {"admin"}
    /\ ~probe.out.next

-----------------------------------------------------------------------------
(* Properties of the rate limiters *)

TestMode == config.nodeEnv = "test"

\* the length of a window of RateLimitWindow minutes
WindowLength == RateLimitWindow * 60000

\* the start of the window the k-th request of a key falls in: the first
\* request opens a window, a request that comes when the window is over
\* opens the next
RECURSIVE WindowStart(_, _)
WindowStart(L, k) ==
    IF k = 1 THEN L[1].t
    ELSE LET w == WindowStart(L, k - 1) IN
         IF L[k].t >= w + WindowLength THEN L[k].t ELSE w

\* the position of the k-th request of a key within its window
RankInWindow(L, k) ==
    Cardinality({j \in 1..k : WindowStart(L, j) = WindowStart(L, k)})

\* of the requests a limiter has decided, those within the maximum of their
\* window were let through and those beyond it were rejected
DecidedByRank ==
    \A tier \in Tiers, key \in Keys :
        LET L == log[tier][key] IN
        \A k \in 1..Len(L) :
            /\ RankInWindow(L, k) <= TierMax(tier) => L[k].out # "rejected"
            /\ RankInWindow(L, k) > TierMax(tier) => L[k].out # "passed"

\* C6: while limiting is active (the environment mode is not test, where the
\* limiters are bypassed), the first M requests of a key in a window are let
\* through, the (M+1)-th of the window is rejected with RATE_LIMIT_EXCEEDED,
\* and the first one after the window has rolled over is let through again.
C6_WindowBudget == ~TestMode => DecidedByRank

\* C6 witness: M requests of a key passed, the next was rejected and, the
\* window over, one more passed
C6_Witness ==
    \E tier \in Tiers, key \in Keys :
        LET L == log[tier][key]
            M == TierMax(tier)
        IN /\ Len(L) >= M + 2
           /\ \A k \in 1..M : L[k].out = "passed"
           /\ RankInWindow(L, M + 1) = M + 1
           /\ L[M + 1].out = "rejected"
           /\ RankInWindow(L, M + 2) = 1
           /\ L[M + 2].out = "passed"

\* the requests of a key let through in the window opened at w
PassedInWindow(L, w) ==
    {k \in 1..Len(L) : WindowStart(L, k) = w /\ L[k].out = "passed"}

AtMostMaxPass ==
    \A tier \in Tiers, key \in Keys :
        LET L == log[tier][key] IN
        \A k \in 1..Len(L) :
            Cardinality(PassedInWindow(L, WindowStart(L, k))) <= TierMax(tier)

\* C7: while limiting is active, under any interleaving of concurrent
\* requests of the same (tier, key) at most M requests of the key are let
\* through in one window: two concurrent requests that arrive at count M-1
\* are counted as M and M+1 and do not both pass.
C7_AtomicCount ==
    ~TestMode =>
        /\ AtMostMaxPass
        /\ \A s, z \in Slots :
              (s # z /\ reqs[s].rl = "decide" /\ reqs[z].rl = "decide"
               /\ StageOf(reqs[s]).kind = StageOf(reqs[z]).kind
               /\ reqs[s].key = reqs[z].key
               /\ reqs[s].st = "run" /\ reqs[z].st = "run")
                  => (reqs[s].hit # reqs[z].hit \/ reqs[s].entry # reqs[z].entry)

\* C7 witness: two requests of one key are in the limiter at once, counted
\* M and M+1
C7_Witness ==
    \E s, z \in Slots :
        /\ s # z
        /\ reqs[s].st = "run" /\ reqs[z].st = "run"
        /\ reqs[s].rl = "decide" /\ reqs[z].rl = "decide"
        /\ StageOf(reqs[s]).kind = StageOf(reqs[z]).kind
        /\ reqs[s].key = reqs[z].key
        /\ reqs[s].hit = TierMax(TierOf(StageOf(reqs[s]).kind))
        /\ reqs[z].hit = reqs[s].hit + 1

\* the count of every bucket is the number of requests received for its key
\* in the window of the latest of them
CountIsReceived ==
    \A tier \in Tiers, key \in Keys :
        LET L == log[tier][key] IN
        buckets[tier][key].hits = IF Len(L) = 0 THEN 0 ELSE RankInWindow(L, Len(L))

\* C8: while limiting is active, the count of a bucket equals the number of
\* requests received for its (tier, key) in the current window, rejected
\* ones included: it is not capped at the maximum and starts again only at
\* window rollover.
C8_CountsEveryRequest == ~TestMode => CountIsReceived

\* C8 witness: a bucket counts more than its maximum, the last request
\* counted having been rejected
C8_Witness ==
    \E tier \in Tiers, key \in Keys :
        LET L == log[tier][key] IN
        /\ buckets[tier][key].hits > TierMax(tier)
        /\ Len(L) > 0
        /\ L[Len(L)].out = "rejected"

-----------------------------------------------------------------------------
(* Properties of retryRequest *)

\* the failures the claim calls retryable
NoResponseOr5xxOr408Or429(e) ==
    ~e.hasResponse \/ e.status >= 500 \/ e.status = 408 \/ e.status = 429

\* the k-th failed attempt was followed by a delay and another attempt
WasRetried(k) == k <= Len(retry.delays)

\* the k-th failed attempt ended the call: its error was thrown at once
ThrownAt(k) ==
    /\ retry.pc = "thrown"
    /\ retry.thrown = retry.errors[k]
    /\ retry.calls = k
    /\ Len(retry.errors) = k
    /\ Len(retry.delays) = k - 1

\* C9 as stated: while attempts remain, a failed attempt is retried if and
\* only if the failure has no response or status >= 500, 408 or 429; a
\* failure with another response status is thrown at once, and when it is
\* the first failure the thunk has been invoked exactly once.
C9_Original ==
    \A k \in 1..Len(retry.errors) :
        k <= retry.maxRetries =>
            /\ WasRetried(k) <=> NoResponseOr5xxOr408Or429(retry.errors[k])
            /\ ~NoResponseOr5xxOr408Or429(retry.errors[k]) => ThrownAt(k)

\* C9 amended: while attempts remain (the failed attempt is not the
\* (maxRetries+1)-th), a failed attempt is retried if and only if the
\* failure is not an AxiosError, or has no response, or has status >= 500,
\* 408 or 429; an AxiosError with another response status is thrown at once
\* with no delay and no further attempt, so that the thunk is invoked
\* exactly once when it is the first failure. The last attempt allowed is
\* never retried.
C9_RetryClassification ==
    \A k \in 1..Len(retry.errors) :
        LET e == retry.errors[k] IN
        /\ k <= retry.maxRetries =>
              (WasRetried(k) <=> (~e.isAxios \/ NoResponseOr5xxOr408Or429(e)))
        /\ k > retry.maxRetries => ~WasRetried(k)
        /\ ~WasRetried(k) => ThrownAt(k)
        /\ (e.isAxios /\ ~NoResponseOr5xxOr408Or429(e)) => ThrownAt(k)

\* C9 witness: the first attempt failed with a 404 response and the error
\* was thrown
C9_Witness ==
    /\ retry.pc = "thrown"
    /\ retry.maxRetries >= 1
    /\ retry.calls = 1
    /\ retry.errors = <<[isAxios |-> TRUE, hasResponse |-> TRUE, status |-> 404]>>

\* C10 as stated: the thunk is invoked at most maxRetries times in one call
\* (stated for a maximum of at least one).
C10_Original == retry.maxRetries >= 1 => retry.calls <= retry.maxRetries

\* C10 amended: the thunk is invoked at most maxRetries + 1 times in one
\* call: the first attempt and at most maxRetries retries.
C10_AtMostMaxRetriesPlusOne == retry.calls <= retry.maxRetries + 1

\* C10 witness: every attempt failed with a retryable error and the call
\* ended after maxRetries + 1 invocations
C10_Witness ==
    /\ retry.pc = "thrown"
    /\ retry.maxRetries = MaxRetriesBound
    /\ retry.calls = retry.maxRetries + 1
    /\ \A k \in 1..Len(retry.errors) : NoResponseOr5xxOr408Or429(retry.errors[k])

-----------------------------------------------------------------------------
(* Properties of retryRequest: delays and the error surfaced *)

Http503 == [isAxios |-> TRUE, hasResponse |-> TRUE, status |-> 503]

\* C11: the delay waited before the k-th retry is baseDelay * 2^(k-1), one
\* delay per retry; a thunk that fails with status 503 twice and then
\* succeeds, with maxRetries = 3, makes retryRequest return after three
\* invocations and exactly two retries, with delays baseDelay and
\* 2 * baseDelay.
C11_ExponentialBackoff ==
    /\ \A k \in 1..Len(retry.delays) : retry.delays[k] = retry.baseDelay * 2^(k - 1)
    /\ retry.pc = "returned" => Len(retry.delays) = retry.calls - 1
    /\ (retry.maxRetries = 3 /\ retry.errors = <<Http503, Http503>> /\ retry.pc \notin {"loop", "sleep"})
          => /\ retry.pc = "returned"
             /\ retry.calls = 3
             /\ retry.delays = <<retry.baseDelay, 2 * retry.baseDelay>>

\* C11 witness: 503, 503, success with maxRetries = 3
C11_Witness ==
    /\ retry.pc = "returned"
    /\ retry.maxRetries = 3
    /\ retry.errors = <<Http503, Http503>>
    /\ retry.delays = <<HttpRetryDelay, 2 * HttpRetryDelay>>

\* the call has ended
RetryEnded == retry.pc \in {"returned", "thrown"}

\* every invocation of the thunk failed
EveryAttemptFailed == retry.calls >= 1 /\ Len(retry.errors) = retry.calls

\* C12: when every attempt fails with a retryable error, retryRequest ends
\* as soon as the attempts are used up, by throwing the error of the last
\* attempt; it never returns normally after an attempt that failed last.
C12_LastErrorSurfaced ==
    /\ (EveryAttemptFailed /\ retry.calls = retry.maxRetries + 1)
          => /\ retry.pc = "thrown"
             /\ retry.thrown = retry.errors[Len(retry.errors)]
             /\ retry.thrownAt = retry.calls
    /\ (RetryEnded /\ EveryAttemptFailed)
          => retry.pc = "thrown" /\ retry.thrown = retry.errors[Len(retry.errors)]
    /\ retry.pc = "returned" => Len(retry.errors) = retry.calls - 1

\* C12 witness: maxRetries + 1 attempts failed with retryable errors, the
\* last one different from the ones before, and it is the one thrown
C12_Witness ==
    /\ retry.pc = "thrown"
    /\ retry.maxRetries >= 2
    /\ retry.calls = retry.maxRetries + 1
    /\ \A k \in 1..Len(retry.errors) : NoResponseOr5xxOr408Or429(retry.errors[k])
    /\ retry.errors[1] # retry.errors[Len(retry.errors)]
    /\ retry.thrown = retry.errors[Len(retry.errors)]

-----------------------------------------------------------------------------
(* Properties of updateProject *)

\* the edges of the lifecycle graph
Edges ==
    {<<"pending", "active">>, <<"pending", "cancelled">>,
     <<"active", "completed">>, <<"active", "cancelled">>}

\* the error of an invalid transition, naming both statuses
InvalidTransition(from, to) == ServiceError("Cannot change status", from, to)

\* the name check of the request failed: duplicate name, or lookup failure
NameCheckFailures ==
    {"A project with this name already exists", "Failed to validate project name"}

\* the store failed to answer one of the queries of the call
StoreFailed(call) ==
    call.error.msg \in StoreErrorTexts \cup {"Failed to validate project name", "no rows returned"}

\* the call has ended, for a project the user owns, the store having answered
UpdateEnded(call) ==
    /\ call.pc \in {"returned", "thrown"}
    /\ getProjectById(call.before, call.userId, call.projectId) # NoProject
    /\ ~StoreFailed(call)

\* the status the project had when the call was made
CurrentStatus(call) == call.before[call.projectId].status

\* the call requests a status different from the current one
RequestsOtherStatus(call) == call.status \in Statuses /\ call.status # CurrentStatus(call)

\* no update is sent to the store for a transition that is not an edge
WritesOnlyEdges ==
    \A c \in Callers :
        LET call == svc[c] IN
        (RequestsOtherStatus(call) /\ (call.pc = "write" \/ call.wrote))
            => <<CurrentStatus(call), call.status>> \in Edges

\* C13 as stated: a request for a different status writes only if (current,
\* requested) is an edge; otherwise it fails with an error naming both the
\* current and the requested status and the store is left unchanged.
C13_Original ==
    /\ WritesOnlyEdges
    /\ \A c \in Callers :
          LET call == svc[c] IN
          (UpdateEnded(call) /\ RequestsOtherStatus(call)
             /\ <<CurrentStatus(call), call.status>> \notin Edges)
               => /\ call.pc = "thrown"
                  /\ call.error = InvalidTransition(CurrentStatus(call), call.status)
                  /\ projects = call.before

\* C13 amended: a request for a different status writes only if (current,
\* requested) is an edge; otherwise it fails and every field of the stored
\* project is left unchanged, a name supplied in the same request included.
\* The error names both the current and the requested status, unless the
\* request also changes the name and the name is already used by another
\* project of the user: the name check comes first and its error is thrown.
C13_TransitionFrame ==
    /\ WritesOnlyEdges
    /\ \A c \in Callers :
          LET call == svc[c] IN
          (UpdateEnded(call) /\ RequestsOtherStatus(call)
             /\ <<CurrentStatus(call), call.status>> \notin Edges)
               => /\ call.pc = "thrown"
                  /\ projects = call.before
                  /\ IF /\ call.name \in ProjectNames
                        /\ call.name # call.before[call.projectId].name
                        /\ \E i \in ProjectIds \ {call.projectId} :
                              /\ call.before[i].user_id = call.userId
                              /\ call.before[i].name = call.name
                     THEN call.error.msg = "A project with this name already exists"
                     ELSE call.error = InvalidTransition(CurrentStatus(call), call.status)

\* C13 witness: a request with a new name and a status that is not an edge
\* was rejected naming both statuses, the stored name unchanged
C13_Witness ==
    \E c \in Callers :
        LET call == svc[c] IN
        /\ call.pc = "thrown"
        /\ call.name = "gamma"
        /\ call.status = "pending"
        /\ call.error = InvalidTransition("active", "pending")
        /\ projects[call.projectId] = Project("u1", "alpha", "active")

\* the call was not failed by the name check
NameCheckPassed(call) == call.error.msg \notin NameCheckFailures

\* the outcome of a request for status `to` on a project in status `from`
Rejected(call) ==
    /\ call.pc = "thrown"
    /\ call.error = InvalidTransition(CurrentStatus(call), call.status)
    /\ call.resp = Response(400, "INVALID_STATUS_TRANSITION")
    /\ projects = call.before

Applied(call) ==
    /\ call.pc = "returned"
    /\ call.resp = Response(200, "OK")
    /\ projects[call.projectId].status = call.status

\* C14 as stated: pending -> active succeeds, active -> pending fails with
\* InvalidTransition, and on a completed project a request for any status,
\* completed included, fails with InvalidTransition.
C14_Original ==
    \A c \in Callers :
        LET call == svc[c] IN
        (UpdateEnded(call) /\ NameCheckPassed(call) /\ call.status \in Statuses) =>
            /\ (CurrentStatus(call) = "pending" /\ call.status = "active") => Applied(call)
            /\ (CurrentStatus(call) = "active" /\ call.status = "pending") => Rejected(call)
            /\ CurrentStatus(call) = "completed" => Rejected(call)

\* C14 amended: pending -> active succeeds, active -> pending fails with
\* InvalidTransition, and on a completed project a request for any other
\* status (pending, active or cancelled) fails with InvalidTransition; a
\* request for completed itself is not checked against the graph and
\* succeeds, the status staying completed.
C14_LifecycleExamples ==
    \A c \in Callers :
        LET call == svc[c] IN
        (UpdateEnded(call) /\ NameCheckPassed(call) /\ call.status \in Statuses) =>
            /\ (CurrentStatus(call) = "pending" /\ call.status = "active") => Applied(call)
            /\ (CurrentStatus(call) = "active" /\ call.status = "pending") => Rejected(call)
            /\ (CurrentStatus(call) = "completed" /\ call.status # "completed")
                  => Rejected(call)
            /\ (CurrentStatus(call) = "completed" /\ call.status = "completed")
                  => Applied(call)

\* C14 witness: a completed project was asked to become active and the
\* request was rejected
C14_Witness ==
    \E c \in Callers :
        LET call == svc[c] IN
        /\ call.pc = "thrown"
        /\ call.before[call.projectId].status = "completed"
        /\ call.status = "active"
        /\ call.resp = Response(400, "INVALID_STATUS_TRANSITION")
        /\ projects[call.projectId].status = "completed"

-----------------------------------------------------------------------------
(* Properties of validate *)

\* the number of violations the schema of a facet finds in its raw value
ViolationCount(input) ==
    CASE input = "bad1" -> 1
      [] input = "bad2" -> 2
      [] OTHER -> 0

\* the violations validate is to report for a facet: none without a schema
Violations(facet) ==
    IF facet \in val.schemas THEN ViolationCount(val.raw[facet]) ELSE 0

\* the entries of the error list that belong to a facet, in order
EntriesOf(facet) == SelectSeq(val.out.errors, LAMBDA e : e[1] = facet)

FacetRank(facet) ==
    CASE facet = "body" -> 1
      [] facet = "params" -> 2
      [] facet = "query" -> 3

\* C15: validate never stops at the first failing facet: the error list
\* holds, for every facet that has a schema, all the violations of that
\* facet in order, body entries before params entries before query
\* entries, so that its length is the sum of the per-facet counts; a
\* non-empty list is answered 400 VALIDATION_ERROR without next.
C15_AllFacetsReported ==
    val.pc = "done" =>
        /\ \A f \in {"body", "params", "query"} :
              EntriesOf(f) = [i \in 1..Violations(f) |-> <<f, i>>]
        /\ Len(val.out.errors) = Violations("body") + Violations("params") + Violations("query")
        /\ \A i, j \in 1..Len(val.out.errors) :
              i < j => FacetRank(val.out.errors[i][1]) <= FacetRank(val.out.errors[j][1])
        /\ Len(val.out.errors) > 0 =>
              /\ ~val.out.next
              /\ val.out.status = 400
              /\ val.out.code = "VALIDATION_ERROR"

\* C15 witness: two invalid body fields and one invalid query field give
\* three entries, the body entries first
C15_Witness ==
    /\ val.pc = "done"
    /\ {"body", "query"} \subseteq val.schemas
    /\ val.raw["body"] = "bad2"
    /\ val.raw["query"] = "bad1"
    /\ val.out.errors = << <<"body", 1>>, <<"body", 2>>, <<"query", 1>> >>

\* the page and limit values that are not a number within the bounds
PageOutOfBounds == {"0", "-1", "abc", ArrayValue}
LimitOutOfBounds == {"0", "-1", "101", "abc", ArrayValue}

-----------------------------------------------------------------------------
(* Properties of authenticate: the algorithm allow-list *)

\* the request carries a JWT signed with another algorithm than the
\* configured one
SignedWithOtherAlgorithm(r) ==
    /\ r.header.kind = "bearer"
    /\ r.header.token.form = "jwt"
    /\ r.header.token.alg # config.jwtAlgorithm

\* C17: every token signed with an algorithm other than the configured one
\* is rejected by authenticate with 401 MALFORMED_TOKEN, without next and
\* without a Claim Set, even when its signature is valid under the
\* algorithm it was signed with, whatever its expiry and payload.
C17_AlgorithmAllowList ==
    \A s \in Slots :
        LET r == reqs[s] IN
        (AuthenticateRan(r) /\ SignedWithOtherAlgorithm(r)) =>
            /\ r.resp = <<Response(401, "MALFORMED_TOKEN")>>
            /\ r.st = "done"
            /\ r.idx = 1
            /\ r.ran = <<"authenticate">>
            /\ r.user = NoUser

\* C17 witness: a token with a valid signature, unexpired and complete, but
\* signed with another algorithm, was rejected
C17_Witness ==
    \E s \in Slots :
        LET r == reqs[s] IN
        /\ AuthenticateRan(r)
        /\ SignedWithOtherAlgorithm(r)
        /\ r.header.token.sigOK
        /\ ~r.header.token.expired
        /\ AllFourTruthy(r.header.token.payload)
        /\ r.resp = <<Response(401, "MALFORMED_TOKEN")>>

-----------------------------------------------------------------------------
(* Properties of the limiters: keys, bypass, coverage of the routes *)

\* the key a request is to be counted under: the subject id of its Claim
\* Set on the identity-aware tiers, its network address otherwise
ExpectedKey(tier, user, ip) ==
    IF tier \in {"general", "admin"} /\ user # NoUser THEN user.id ELSE ip

\* the limiter of request s counts the request in this step
Counts(s) ==
    /\ reqs[s].st = "run"
    /\ StageOf(reqs[s]).kind \in LimiterKinds
    /\ reqs[s].rl = "start"
    /\ reqs'[s].rl = "decide"

\* a request counted by a limiter adds one to the bucket of its key in the
\* limiter's tier, and no other bucket changes
CountedUnderItsKey ==
    \A s \in Slots :
        Counts(s) =>
            LET tier == TierOf(StageOf(reqs[s]).kind)
                key == ExpectedKey(tier, reqs[s].user, reqs[s].ip)
            IN /\ buckets'[tier][key].hits = buckets[tier][key].hits + 1
               /\ \A t \in Tiers, k \in Keys :
                     (t # tier \/ k # key) => buckets'[t][k] = buckets[t][k]

\* no bucket changes unless a limiter counts a request
OnlyRequestsCount == buckets' # buckets => \E s \in Slots : Counts(s)

\* C18: generalRateLimit and adminRateLimit key a request by the subject id
\* of its Claim Set when it has one and by its network address otherwise,
\* authRateLimit and healthRateLimit always by the network address; a
\* request counted by a limiter adds one to the bucket of that key in that
\* tier and leaves the bucket of every other key and tier as it was.
C18_BucketPerKey ==
    /\ \A tier \in Tiers, ip \in Ips, user \in {NoUser, ClaimSet("u1", "admin"), ClaimSet("u2", "user")} :
          KeyGenerator(tier, user, ip) = ExpectedKey(tier, user, ip)
    /\ [][CountedUnderItsKey /\ OnlyRequestsCount]_vars

\* C18 witness: user u2 was counted twice in one bucket from two addresses,
\* user u1 once in another from one of the same addresses, and the buckets
\* of the addresses themselves are empty on that tier
C18_Witness ==
    /\ buckets["general"]["u2"].hits = 2
    /\ buckets["general"]["u1"].hits = 1
    /\ buckets["general"]["ip1"].hits = 0
    /\ buckets["general"]["ip2"].hits = 0
    /\ \E s \in Slots : reqs[s].st = "done" /\ reqs[s].ip = "ip2" /\ reqs[s].user.id = "u2"

\* C19: when the environment mode is test, no limiter of any tier rejects a
\* request: no response is RATE_LIMIT_EXCEEDED, every request that reached
\* a limiter passed it, and no bucket counts anything.
C19_TestModeBypass ==
    TestMode =>
        /\ \A s \in Slots : \A i \in DOMAIN reqs[s].resp :
              reqs[s].resp[i].code # "RATE_LIMIT_EXCEEDED"
        /\ \A s \in Slots : reqs[s].rl = "start"
        /\ \A tier \in Tiers, key \in Keys :
              /\ \A i \in DOMAIN log[tier][key] : log[tier][key][i].out = "passed"
              /\ buckets[tier][key].hits = 0

\* C19 witness: in test mode one key sent more requests within one window
\* than its tier allows, and all of them passed
C19_Witness ==
    /\ TestMode
    /\ \E tier \in Tiers, key \in Keys :
          LET L == log[tier][key] IN
          \E k \in 1..Len(L) :
              Cardinality(PassedInWindow(L, WindowStart(L, k))) > TierMax(tier)
    /\ now > 0

\* the tier each endpoint is documented to be limited by
CategoryTier(route) ==
    CASE route \in {"POST /api/auth/login", "POST /api/auth/reset-password"} -> "auth"
      [] route \in AdminRoutes -> "admin"
      [] route = "GET /health" -> "health"
      [] OTHER -> "general"

HandlersRun(r) == {r.ran[i] : i \in DOMAIN r.ran}

\* C20: every endpoint has the limiter of its category in its chain: a
\* request that reached the controller of its route went through the limiter
\* of the route's tier before.
C20_Original ==
    \A s \in Slots :
        "controller" \in HandlersRun(reqs[s]) =>
            (CategoryTier(reqs[s].route) \o "RateLimit") \in HandlersRun(reqs[s])

\* C20 witness: a request of GET /api/auth/me or GET /api/auth/validate was
\* authenticated and answered by its controller, and no limiter ran
C20_Witness ==
    \E s \in Slots :
        /\ reqs[s].route \in {"GET /api/auth/me", "GET /api/auth/validate"}
        /\ reqs[s].st = "done"
        /\ reqs[s].ran = <<"authenticate", "controller">>
        /\ HandlersRun(reqs[s]) \cap LimiterKinds = {}

-----------------------------------------------------------------------------
(* Properties of checkRole: a request without a Claim Set *)

\* C23: checkRole invoked on a request that carries no Claim Set ends the
\* request itself with a status 500 response that is not the 403
\* INSUFFICIENT_PERMISSIONS response, without throwing out of the middleware
\* and without calling next.
C23_Original ==
    (probe.pc = "done" /\ probe.user = NoUser) =>
        /\ probe.out.status = 500
        /\ probe.out.code # "INSUFFICIENT_PERMISSIONS"
        /\ ~probe.out.next
        /\ ~probe.out.threw

\* C23 witness: checkRole(["admin"]) ran on a request without a Claim Set,
\* the error left the middleware and the global error handler answered
C23_Witness ==
    /\ probe.pc = "done"
    /\ probe.user = NoUser
    /\ probe.allowedRoles = {"admin"}
    /\ probe.out.threw
    /\ probe.out.code = "INTERNAL_SERVER_ERROR"

-----------------------------------------------------------------------------
(* Properties of updateProject: a request for the current status *)

\* the call has ended and asked for the status its project already had
AskedCurrentStatus(call) ==
    /\ call.pc \in {"returned", "thrown"}
    /\ getProjectById(call.before, call.userId, call.projectId) # NoProject
    /\ call.status \in Statuses
    /\ call.status = CurrentStatus(call)

\* C22: updateProject with a requested status equal to the current status
\* of the project is not evaluated against the transition graph: for every
\* current status, the terminal ones included, the call is never rejected
\* with the invalid-transition error and the stored status after the call
\* equals the status before it.
C22_SameStatusUnchecked ==
    \A c \in Callers :
        LET call == svc[c] IN
        AskedCurrentStatus(call) =>
            /\ call.error.msg # "Cannot change status"
            /\ call.resp.code # "INVALID_STATUS_TRANSITION"
            /\ projects[call.projectId].status = CurrentStatus(call)
            /\ (NameCheckPassed(call) /\ ~StoreFailed(call)) => call.pc = "returned"

\* C22 witness: a cancelled project was asked to become cancelled, with a
\* new name, and the update was written
C22_Witness ==
    \E c \in Callers :
        LET call == svc[c] IN
        /\ AskedCurrentStatus(call)
        /\ CurrentStatus(call) = "cancelled"
        /\ call.name = "gamma"
        /\ call.pc = "returned"
        /\ projects[call.projectId] = Project("u1", "gamma", "cancelled")

-----------------------------------------------------------------------------
(* Properties of concurrent calls of ProjectService *)

\* the stored status of project i changes in this step
StatusStep(i) ==
    /\ projects[i] # NoProject
    /\ projects'[i] # NoProject
    /\ projects'[i].status # projects[i].status

\* C21: under any interleaving of concurrent updateProject calls on the same
\* project, every change of the stored status is an edge of the transition
\* graph; in particular a stored status that is completed or cancelled never
\* changes again.
C21_Original ==
    [][\A i \in ProjectIds :
          StatusStep(i) => <<projects[i].status, projects'[i].status>> \in Edges]_vars

\* C21 witness: two calls read the project p1 as active, one wrote completed
\* and the other cancelled, each transition valid for the status it read
C21_Witness ==
    \E c, d \in Callers :
        /\ svc[c].pc = "returned" /\ svc[d].pc = "returned"
        /\ svc[c].op = "update" /\ svc[d].op = "update"
        /\ svc[c].existing.status = "active" /\ svc[d].existing.status = "active"
        /\ svc[c].result.status = "completed"
        /\ svc[d].result.status = "cancelled"
        /\ projects["p1"].status = "cancelled"

\* C28: under any interleaving of concurrent createProject and updateProject
\* calls by the same user, the store never holds two projects of that user
\* with the same name.
C28_Original ==
    \A i, j \in ProjectIds :
        (i # j /\ projects[i] # NoProject /\ projects[j] # NoProject
           /\ projects[i].user_id = projects[j].user_id)
            => projects[i].name # projects[j].name

\* C28 witness: a createProject and an updateProject of user u1 both found
\* the name beta unused and both wrote it
C28_Witness ==
    /\ \E c, d \in Callers :
          /\ svc[c].op = "create" /\ svc[c].pc = "returned"
          /\ svc[d].op = "update" /\ svc[d].pc = "returned" /\ svc[d].name = "beta"
    /\ projects["p1"].user_id = "u1" /\ projects["p1"].name = "beta"
    /\ projects["p2"].user_id = "u1" /\ projects["p2"].name = "beta"

-----------------------------------------------------------------------------
(* Properties of ProjectService: ownership *)

\* the call names a project that belonged to another user when it was made
OnForeignProject(call) ==
    /\ call.op \in {"get", "update", "delete"}
    /\ call.pc # "idle"
    /\ call.before[call.projectId] # NoProject
    /\ call.before[call.projectId].user_id # call.userId

\* a call on another user's project fails with 'Project not found' (unless
\* the store itself fails) and no call reads a row of another user
ForeignCallsFail ==
    \A c \in Callers :
        LET call == svc[c] IN
        /\ (OnForeignProject(call) /\ call.pc \in {"returned", "thrown"}) =>
              /\ call.pc = "thrown"
              /\ call.at = "get"
              /\ ~call.wrote
              /\ call.upstream = "" =>
                    /\ call.error.msg = "Project not found"
                    /\ call.resp.status = 404
        /\ call.existing # NoProject => call.existing.user_id = call.userId
        /\ call.result # NoProject => call.result.user_id = call.userId

\* a row changes or disappears only in a step of a call by its owner
OnlyOwnerWrites ==
    \A i \in ProjectIds :
        (projects[i] # NoProject /\ projects'[i] # projects[i]) =>
            \E c \in Callers :
                /\ svc[c].pc \in {"write", "delete"}
                /\ svc[c].projectId = i
                /\ svc[c].userId = projects[i].user_id
                /\ svc'[c].pc = "returned"

\* C29: for every user U and every project of another user V,
\* getProjectById, updateProject and deleteProject called with U's id fail
\* with 'Project not found' and leave the project unchanged; no sequence of
\* calls with U's id reads, modifies or deletes a project of V.
C29_OwnershipIsolation == []ForeignCallsFail /\ [][OnlyOwnerWrites]_vars

\* C29 witness: user u2 asked to delete the project p1 of user u1, was
\* answered 404, and the project is still there
C29_Witness ==
    \E c \in Callers :
        /\ svc[c].op = "delete"
        /\ svc[c].userId = "u2"
        /\ svc[c].projectId = "p1"
        /\ svc[c].pc = "thrown"
        /\ svc[c].message = "Project not found"
        /\ svc[c].resp = Response(404, "PROJECT_DELETION_ERROR")
        /\ projects["p1"] = svc[c].before["p1"]
        /\ projects["p1"].user_id = "u1"

-----------------------------------------------------------------------------
(* Properties of ProjectService: errors of the store *)

\* two calls that differ at most in the text of the error the store
\* answered with: same operation and arguments, same row read, failed by the
\* store at the same query
DifferOnlyInStoreText(a, b) ==
    /\ a.pc = "thrown" /\ b.pc = "thrown"
    /\ a.upstream # "" /\ b.upstream # ""
    /\ a.at = b.at
    /\ ServiceCall(a.op, a.userId, a.projectId, a.name, a.status)
          = ServiceCall(b.op, b.userId, b.projectId, b.name, b.status)
    /\ a.existing = b.existing

\* C25: for every failure the store returns to a project service operation,
\* the HTTP error response carries a domain-level message that does not
\* depend on the store's error text: two calls that differ only in that text
\* are answered with the same status, code and message.
C25_Original ==
    \A c, d \in Callers :
        DifferOnlyInStoreText(svc[c], svc[d]) =>
            /\ svc[c].resp = svc[d].resp
            /\ svc[c].message = svc[d].message

\* C25 witness: the same GET /api/projects/:id of the owner failed twice at
\* the store, once answered 400 with the store's text 'connection timeout'
\* and once 404 with the store's text 'relation not found'
C25_Witness ==
    \E c, d \in Callers :
        /\ DifferOnlyInStoreText(svc[c], svc[d])
        /\ svc[c].op = "get"
        /\ svc[c].resp.status = 400 /\ svc[c].message = "connection timeout"
        /\ svc[d].resp.status = 404 /\ svc[d].message = "relation not found"

-----------------------------------------------------------------------------
(* Properties of AuthService.login and authenticate together *)

\* the request carries the token login returned for a user of the system
CarriesLoginToken(r, u) == r.header = Bearer(login(u))

\* C26: for every allowed value of the configured token algorithm (HS256,
\* HS384, HS512), a token returned by AuthService.login is accepted by
\* authenticate before its expiry: authenticate stores a Claim Set with the
\* id, email, profile_id and profile_name login put in the payload and calls
\* next.
C26_Original ==
    \A s \in Slots, u \in SystemUsers :
        LET r == reqs[s] IN
        (AuthenticateRan(r) /\ CarriesLoginToken(r, u)) =>
            /\ r.user = login(u).payload
            /\ r.resp = << >> \/ r.resp[1].status = 200
            /\ r.idx > 1

\* C26 witness: with HS512 configured, a request carrying the token login
\* returned for the admin u1 was answered 401 MALFORMED_TOKEN
C26_Witness ==
    /\ config.jwtAlgorithm = "HS512"
    /\ \E s \in Slots :
          /\ CarriesLoginToken(reqs[s], ClaimSet("u1", "admin"))
          /\ reqs[s].st = "done"
          /\ reqs[s].resp = <<Response(401, "MALFORMED_TOKEN")>>
          /\ reqs[s].user = NoUser

-----------------------------------------------------------------------------
(* Properties of validate: the facets passed on, and parses that throw *)

\* C24: when validate calls next, every facet (body, params, query) that
\* has a schema holds the normalized value produced by its schema, and
\* every facet that has no schema is exactly as it was before validate ran.
C24_Original ==
    (val.pc = "done" /\ val.out.next) =>
        \A f \in {"body", "params", "query"} :
            /\ f \in val.schemas => val.facets[f] = "normalized"
            /\ f \notin val.schemas => val.facets[f] = "received"

\* C24 witness: the schema of the body threw an error that is not a
\* ZodError, next was called, and the body passed on is the one received
C24_Witness ==
    /\ val.pc = "done"
    /\ val.schemas = {"body", "params"}
    /\ val.raw["body"] = "throw"
    /\ val.raw["params"] = "ok"
    /\ val.out.next
    /\ val.facets = [body |-> "received", params |-> "normalized", query |-> "received"]

\* the parse of some facet that has a schema threw
SomeParseThrew == \E f \in val.schemas : val.raw[f] # "ok"

\* C27: validate calls next only if every facet that has a schema was
\* parsed successfully: whenever the parse of some facet throws, whatever
\* the kind of error thrown, the request is answered with an error response
\* and the controller does not run.
C27_Original ==
    (val.pc = "done" /\ SomeParseThrew) =>
        /\ ~val.out.next
        /\ val.out.status \in {400, 500}

\* C27 witness: the only schema is the one of the query, its parse threw an
\* error that is not a ZodError, and validate called next without a response
C27_Witness ==
    /\ val.pc = "done"
    /\ val.schemas = {"query"}
    /\ val.raw["query"] = "throw"
    /\ val.out.next
    /\ val.out.status = 0
    /\ val.out.errors = << >>

-----------------------------------------------------------------------------
(* Properties of AuthService.createUser *)

\* C30: createUser is all-or-nothing across the two stores: whenever it
\* ends with an error, the user it tried to create was added neither to the
\* identity store nor to the users table, whichever step failed and
\* whatever the outcome of the cleanup call; whenever it returns, the user
\* exists in both.
C30_Original ==
    /\ signup.pc = "thrown" =>
          /\ signup.auth = signup.beforeAuth
          /\ signup.users = signup.beforeUsers
    /\ signup.pc = "returned" =>
          /\ signup.email \in signup.auth
          /\ signup.email \in signup.users

\* C30 witness: the insert into users failed, the cleanup call failed too,
\* and createUser ended with the insert's error while the identity store
\* keeps the user it had just created
C30_Witness ==
    /\ signup.pc = "thrown"
    /\ signup.error = "system"
    /\ signup.email \in signup.auth
    /\ signup.email \notin signup.beforeAuth
    /\ signup.email \notin signup.users

====
